---- MODULE Spec2Model ----
(***************************************************************************)
(* A model of the crickedge numerical core: the pairwise rating replay     *)
(* (scripts/build_elo_ratings.py), the sample-stabilized bucket model      *)
(* (scripts/build_statistical_bucket_model.py, build_stabilized_model.py,  *)
(* live_model_calibration.py) and the rolling backtest                     *)
(* (scripts/build_rolling_backtest.py).                                    *)
(*                                                                         *)
(* Ratings are held in hundredths of a rating point (update_elo rounds to  *)
(* two decimals), probabilities rounded to four decimals in units of 1e-4. *)
(***************************************************************************)
EXTENDS Integers, Sequences, FiniteSets, TLC

VARIABLES
    matches,        \* build_elo_ratings: the contest rows (read, then sorted)
    elo_pc,         \* build_elo_ratings: "load", "replay", "done"
    elo_i,          \* build_elo_ratings: position of the for loop in matches
    ratings,        \* build_elo_ratings: dict team -> rating (hundredths)
    team_stats,     \* build_elo_ratings: dict team -> matches_played/wins/losses
    team_order,     \* insertion order of the keys of the ratings dict
    history_rows,   \* build_elo_ratings: rows appended so far
    current_rows,   \* build_elo_ratings: the standings written at the end
    snapshots,      \* over_state_snapshots_enriched.csv: how many rows of each
                    \* kind (raw fields, batting side won or not) it holds
    batches,        \* how many batches of rows have been written to it
    model_pc,       \* the model pipeline: "collect", "bucketed", "audited",
                    \* "stabilized", "answered"
    bucket_rows,    \* statistical_bucket_model.csv, by context key
    audit_rows,     \* statistical_bucket_model_with_stability.csv, by key
    stabilized_rows,\* statistical_bucket_model_stabilized.csv, by key
    answer,         \* the last probability lookup: who asked, for which row,
                    \* and what came back
    all_rows,       \* build_rolling_backtest: how many snapshot rows of each
                    \* kind, outcome and contest date it read
    row_batches,    \* how many batches of rows were written for it
    bt_pc,          \* build_rolling_backtest: "collect", "loop", "done",
                    \* "failed"
    all_years,      \* build_rolling_backtest: the sorted years of the dated rows
    year_i,         \* build_rolling_backtest: position of the for loop
    window_num,     \* build_rolling_backtest: windows evaluated so far
    results,        \* build_rolling_backtest: one record per evaluated window
    results_file,   \* rolling_backtest_results.csv: empty until written
    sim_rows,       \* build_corrected_simulation: the candidate rows of one
                    \* data source (read, then sorted by main)
    sim_pc,         \* build_corrected_simulation: "load", "loop", "summary",
                    \* "done"
    sim_i,          \* run_simulation: position of the for loop in rows
    threshold,      \* run_simulation: edge threshold, hundredths
    scenario,       \* run_simulation: "gross", "realistic", "worst_case"
    seen_matches,   \* run_simulation: match ids that already have a trade
    trades,         \* run_simulation: the admitted trades
    bankroll_history, \* run_simulation: cumulative PnL, starting at 0
    peak,           \* run_simulation: running peak of the bankroll
    max_drawdown,   \* run_simulation: largest peak - bankroll seen
    total_commission, \* run_simulation: commission paid so far
    total_slippage, \* run_simulation: odds given up to slippage so far
    edge_sum,       \* run_simulation: sum of the edges of the trades
    market_prob_sum, \* run_simulation: sum of their market probabilities
    sim_result,     \* run_simulation: the result record, empty until returned
    raw_quotes,     \* historical_odds_raw.csv: the market-quote records
    output_rows,    \* normalize_odds: rows built so far
    odds_file,      \* historical_odds_normalized.csv: empty until written
    metadata,       \* match_metadata.csv: the contests
    model_probs,    \* load_model_probs: dict match_id -> expected win
                    \* probabilities, from the rating history
    merged_file,    \* match_metadata_with_odds.csv: empty until written
    pm_pc,          \* the pre-match programs: "normalize", "merge", "edge",
                    \* "loop", "done", "failed"
    pm_i,           \* position of the for loop of the running program
    pm_matches,     \* edge_simulation: matches_with_odds, sorted by date
    pm_threshold,   \* edge_simulation.run_simulation: threshold, in 1e-6
    bets,           \* edge_simulation.run_simulation: the bets placed
    pm_bankroll_history, \* edge_simulation.run_simulation: cumulative PnL
    pm_peak,        \* edge_simulation.run_simulation: running peak
    pm_max_drawdown, \* edge_simulation.run_simulation: largest drop
    pm_result,      \* edge_simulation.run_simulation: the result record
    ta_rows,        \* high_confidence_inplay_odds.csv: the trade candidates
    ta_metadata,    \* match_metadata.csv as build_timestamp_audit reads it
    mi_timestamps,  \* build_timestamp_audit: dict (match_id, innings_number)
                    \* -> set of fetch timestamps
    ta_pc,          \* build_timestamp_audit: "idle", "read", "loop", "done",
                    \* "failed"
    ta_i,           \* build_timestamp_audit: position of the for loop
    ta_audit_rows,  \* build_timestamp_audit: audit_rows
    leakage_counts, \* build_timestamp_audit: rows counted per risk class
    ta_file,        \* timestamp_audit_results.csv: empty until written
    key_row,        \* a row of over_state_snapshots_enriched.csv
    model_key,      \* get_statistical_win_probability(key_row): empty until
                    \* called, <<"ValueError">> when it raised
    backtest_key,   \* build_rolling_backtest.bucketize(key_row)
    cmp_rows,       \* build_corrected_simulation.main: source_rows
    cmp_pc,         \* build_corrected_simulation.main: "idle", "load", "loop",
                    \* "done"
    cmp_i,          \* main: position in the loops over scenarios and thresholds
    cmp_results,    \* main: results, with the trades of each run
    fh_matches,     \* fetch_historical_odds: the rows of match_metadata.csv
    fh_output,      \* the file historical_odds_raw.csv
    fh_dates_file,  \* the file odds_fetch_dates_done.json
    fh_pc,          \* fetch_historical_odds: "idle", "loop", "save_rows",
                    \* "save_dates", "returned"
    fh_rows,        \* fetch_historical_odds: rows
    fh_existing_ids,\* fetch_historical_odds: existing_ids
    fh_dates_done,  \* fetch_historical_odds: dates_done
    fh_remaining,   \* the part of remaining_dates the for loop has yet to visit
    fh_returned,    \* the value the last finished run returned
    fh_requests,    \* history: requests.get calls made by the current run
    fh_succeeded,   \* history: dates whose API call has succeeded at some time
    fh_failed,      \* history: dates whose latest API call failed
    po_snapshots,   \* fetch_per_over: the rows of the snapshot file
    po_output,      \* the file per_over_aligned_odds.csv
    po_cache_file,  \* the file per_over_odds_cache.json
    po_pc,          \* fetch_per_over: "idle", "start", "loop", "save", "done"
    po_existing_rows, \* fetch_per_over: existing_rows
    po_todo,        \* the part of todo the for loop has yet to visit
    po_rows,        \* fetch_per_over: rows
    po_cache,       \* fetch_per_over: cache
    po_api_calls,   \* fetch_per_over: api_calls
    po_cache_hits,  \* fetch_per_over: cache_hits
    po_requests,    \* history: the requests.get calls of the run, in order
    po_processed    \* history: the snapshots the loop body was run for

eloVars == <<matches, elo_pc, elo_i, ratings, team_stats, team_order,
             history_rows, current_rows>>

modelVars == <<snapshots, batches, model_pc, bucket_rows, audit_rows, stabilized_rows,
               answer>>

backtestVars == <<all_rows, row_batches, bt_pc, all_years, year_i, window_num,
                  results, results_file>>

simVars == <<sim_rows, sim_pc, sim_i, threshold, scenario, seen_matches, trades,
             bankroll_history, peak, max_drawdown, total_commission,
             total_slippage, edge_sum, market_prob_sum, sim_result>>

preVars == <<raw_quotes, output_rows, odds_file, metadata, model_probs, merged_file,
             pm_pc, pm_i, pm_matches, pm_threshold, bets, pm_bankroll_history,
             pm_peak, pm_max_drawdown, pm_result>>

timestampVars == <<ta_rows, ta_metadata, mi_timestamps, ta_pc, ta_i, ta_audit_rows,
                   leakage_counts, ta_file>>

keyVars == <<key_row, model_key, backtest_key>>

compareVars == <<cmp_rows, cmp_pc, cmp_i, cmp_results>>

fetchVars ==
    <<fh_matches, fh_output, fh_dates_file, fh_pc, fh_rows, fh_existing_ids,
      fh_dates_done, fh_remaining, fh_returned, fh_requests, fh_succeeded,
      fh_failed>>

perOverVars ==
    <<po_snapshots, po_output, po_cache_file, po_pc, po_existing_rows, po_todo,
      po_rows, po_cache, po_api_calls, po_cache_hits, po_requests,
      po_processed>>

marketVars == <<simVars, preVars, timestampVars, keyVars, compareVars, fetchVars, perOverVars>>

vars == <<eloVars, modelVars, backtestVars, marketVars>>

-----------------------------------------------------------------------------
(* Generic helpers *)

\* n / m rounded to the nearest integer (m > 0), as round() does away from ties
RoundDiv(n, m) == (2 * n + m) \div (2 * m)

\* dict assignment d[k] = v
Put(d, k, v) == [x \in (DOMAIN d) \cup {k} |-> IF x = k THEN v ELSE d[x]]

EmptyDict == [x \in {} |-> 0]

\* the sum of f over the finite set S
RECURSIVE SumOver(_, _)
SumOver(S, f) ==
    IF S = {} THEN 0
    ELSE LET x == CHOOSE y \in S : TRUE
         IN  f[x] + SumOver(S \ {x}, f)

\* a CSV field: empty, or one number
Blank == <<>>
Val(v) == <<v>>

-----------------------------------------------------------------------------
(* What each program's variables hold while another program is modelled *)

NoAnswer == [by |-> "nobody", found |-> FALSE, num |-> 0, den |-> 1]

EloIdle ==
    /\ matches = <<>>
    /\ elo_pc = "idle"
    /\ elo_i = 0
    /\ ratings = EmptyDict
    /\ team_stats = EmptyDict
    /\ team_order = <<>>
    /\ history_rows = <<>>
    /\ current_rows = <<>>

ModelIdle ==
    /\ snapshots = EmptyDict
    /\ batches = 0
    /\ model_pc = "idle"
    /\ bucket_rows = EmptyDict
    /\ audit_rows = EmptyDict
    /\ stabilized_rows = EmptyDict
    /\ answer = NoAnswer

BacktestIdle ==
    /\ all_rows = EmptyDict
    /\ row_batches = 0
    /\ bt_pc = "idle"
    /\ all_years = <<>>
    /\ year_i = 0
    /\ window_num = 0
    /\ results = <<>>
    /\ results_file = Blank

SimIdle ==
    /\ sim_rows = <<>>
    /\ sim_pc = "idle"
    /\ sim_i = 0
    /\ threshold = 0
    /\ scenario = "gross"
    /\ seen_matches = {}
    /\ trades = <<>>
    /\ bankroll_history = <<0>>
    /\ peak = 0
    /\ max_drawdown = 0
    /\ total_commission = 0
    /\ total_slippage = 0
    /\ edge_sum = 0
    /\ market_prob_sum = 0
    /\ sim_result = Blank

PreMatchIdle ==
    /\ raw_quotes = <<>>
    /\ output_rows = <<>>
    /\ odds_file = Blank
    /\ metadata = <<>>
    /\ model_probs = EmptyDict
    /\ merged_file = Blank
    /\ pm_pc = "idle"
    /\ pm_i = 0
    /\ pm_matches = <<>>
    /\ pm_threshold = 0
    /\ bets = <<>>
    /\ pm_bankroll_history = <<0>>
    /\ pm_peak = 0
    /\ pm_max_drawdown = 0
    /\ pm_result = Blank

NoLeakage == [risk \in {"none", "low", "medium", "high", "critical"} |-> 0]

TimestampIdle ==
    /\ ta_rows = <<>>
    /\ ta_metadata = <<>>
    /\ mi_timestamps = EmptyDict
    /\ ta_pc = "idle"
    /\ ta_i = 0
    /\ ta_audit_rows = <<>>
    /\ leakage_counts = NoLeakage
    /\ ta_file = Blank

KeyIdle ==
    /\ key_row = Blank
    /\ model_key = Blank
    /\ backtest_key = Blank

CompareIdle ==
    /\ cmp_rows = <<>>
    /\ cmp_pc = "idle"
    /\ cmp_i = 0
    /\ cmp_results = <<>>

FetchIdle ==
    /\ fh_matches = <<>>
    /\ fh_output = <<>>
    /\ fh_dates_file = {}
    /\ fh_pc = "idle"
    /\ fh_rows = <<>>
    /\ fh_existing_ids = {}
    /\ fh_dates_done = {}
    /\ fh_remaining = <<>>
    /\ fh_returned = <<>>
    /\ fh_requests = 0
    /\ fh_succeeded = {}
    /\ fh_failed = {}

PerOverIdle ==
    /\ po_snapshots = <<>>
    /\ po_output = <<>>
    /\ po_cache_file = EmptyDict
    /\ po_pc = "idle"
    /\ po_existing_rows = <<>>
    /\ po_todo = <<>>
    /\ po_rows = <<>>
    /\ po_cache = EmptyDict
    /\ po_api_calls = 0
    /\ po_cache_hits = 0
    /\ po_requests = <<>>
    /\ po_processed = <<>>

MarketIdle ==
    /\ SimIdle
    /\ PreMatchIdle
    /\ TimestampIdle
    /\ KeyIdle
    /\ CompareIdle
    /\ FetchIdle
    /\ PerOverIdle

-----------------------------------------------------------------------------
(* scripts/build_elo_ratings.py *)

MaxMatches == 3

K_FACTOR == 20
INITIAL_RATING == 1500

\* one rating point is 100 hundredths
Cents(points) == points * 100

\* expected scores are held in units of 1e-6
ProbScale == 1000 * 1000

Teams == {"A", "B", "C"}
NoWinner == ""
Dates == {1, 2}
Fixtures == {<<"A", "B">>, <<"B", "C">>}

\* expected_score as the float code evaluates it, tabulated in units of 1e-6
\* by rating_b - rating_a (hundredths) for every difference a replay of up to
\* MaxMatches + 1 contests over Fixtures produces
ExpectedScoreTable ==
     (-5662 :> 580769) @@ (-4828 :> 569037) @@ (-4801 :> 568656) @@ (-4774 :> 568274) @@
     (-3944 :> 556516) @@ (-3914 :> 556090) @@ (-3887 :> 555706) @@ (-3884 :> 555664) @@
     (-3857 :> 555280) @@ (-3830 :> 554896) @@ (-3776 :> 554128) @@ (-3662 :> 552506) @@
     (-3000 :> 543066) @@ (-2998 :> 543038) @@ (-2971 :> 542652) @@ (-2969 :> 542624) @@
     (-2942 :> 542238) @@ (-2915 :> 541852) @@ (-2888 :> 541466) @@ (-2886 :> 541438) @@
     (-2831 :> 540651) @@ (-2828 :> 540609) @@ (-2801 :> 540223) @@ (-2774 :> 539836) @@
     (-2110 :> 530328) @@ (-2086 :> 529984) @@ (-2054 :> 529525) @@ (-2028 :> 529152) @@
     (-2001 :> 528765) @@ (-2000 :> 528751) @@ (-1999 :> 528736) @@ (-1946 :> 527976) @@
     (-1944 :> 527947) @@ (-1942 :> 527919) @@ (-1914 :> 527517) @@ (-1890 :> 527172) @@
     (-1887 :> 527129) @@ (-1884 :> 527086) @@ (-1857 :> 526699) @@ (-1830 :> 526311) @@
     (-1776 :> 525536) @@ (-1662 :> 523900) @@ (-1114 :> 516026) @@ (-1112 :> 515998) @@
     (-1085 :> 515609) @@ (-1058 :> 515221) @@ (-1055 :> 515178) @@ (-1031 :> 514833) @@
     (-1029 :> 514804) @@ (-1002 :> 514416) @@ (-1000 :> 514387) @@ (-998 :> 514358) @@
     (-971 :> 513970) @@ (-969 :> 513941) @@ (-945 :> 513596) @@ (-942 :> 513553) @@
     (-915 :> 513165) @@ (-888 :> 512777) @@ (-886 :> 512748) @@ (-831 :> 511957) @@
     (-828 :> 511914) @@ (-801 :> 511525) @@ (-774 :> 511137) @@ (-224 :> 503224) @@
     (-170 :> 502446) @@ (-143 :> 502058) @@ (-116 :> 501669) @@ (-113 :> 501626) @@
     (-110 :> 501583) @@ (-86 :> 501238) @@ (-58 :> 500835) @@ (-56 :> 500806) @@
     (-54 :> 500777) @@ (-28 :> 500403) @@ (-1 :> 500014) @@ (0 :> 500000) @@
     (1 :> 499986) @@ (28 :> 499597) @@ (54 :> 499223) @@ (56 :> 499194) @@
     (58 :> 499165) @@ (86 :> 498762) @@ (110 :> 498417) @@ (113 :> 498374) @@
     (116 :> 498331) @@ (143 :> 497942) @@ (170 :> 497554) @@ (224 :> 496776) @@
     (774 :> 488863) @@ (801 :> 488475) @@ (828 :> 488086) @@ (831 :> 488043) @@
     (886 :> 487252) @@ (888 :> 487223) @@ (915 :> 486835) @@ (942 :> 486447) @@
     (945 :> 486404) @@ (969 :> 486059) @@ (971 :> 486030) @@ (998 :> 485642) @@
     (1000 :> 485613) @@ (1002 :> 485584) @@ (1029 :> 485196) @@ (1031 :> 485167) @@
     (1055 :> 484822) @@ (1058 :> 484779) @@ (1085 :> 484391) @@ (1112 :> 484002) @@
     (1114 :> 483974) @@ (1662 :> 476100) @@ (1776 :> 474464) @@ (1830 :> 473689) @@
     (1857 :> 473301) @@ (1884 :> 472914) @@ (1887 :> 472871) @@ (1890 :> 472828) @@
     (1914 :> 472483) @@ (1942 :> 472081) @@ (1944 :> 472053) @@ (1946 :> 472024) @@
     (1999 :> 471264) @@ (2000 :> 471249) @@ (2001 :> 471235) @@ (2028 :> 470848) @@
     (2054 :> 470475) @@ (2086 :> 470016) @@ (2110 :> 469672) @@ (2774 :> 460164) @@
     (2801 :> 459777) @@ (2828 :> 459391) @@ (2831 :> 459349) @@ (2886 :> 458562) @@
     (2888 :> 458534) @@ (2915 :> 458148) @@ (2942 :> 457762) @@ (2969 :> 457376) @@
     (2971 :> 457348) @@ (2998 :> 456962) @@ (3000 :> 456934) @@ (3662 :> 447494) @@
     (3776 :> 445872) @@ (3830 :> 445104) @@ (3857 :> 444720) @@ (3884 :> 444336) @@
     (3887 :> 444294) @@ (3914 :> 443910) @@ (3944 :> 443484) @@ (4774 :> 431726) @@
     (4801 :> 431344) @@ (4828 :> 430963) @@ (5662 :> 419231)

\* 1 / (1 + 10 ** ((rating_b - rating_a) / 400)), in units of 1e-6; outside the
\* tabulated differences the first-order expansion around 0 is used
expected_score(rating_a, rating_b) ==
    LET d == rating_b - rating_a
    IN  IF d \in DOMAIN ExpectedScoreTable
        THEN ExpectedScoreTable[d]
        ELSE LET lin == 500000 - ((d * 1439) \div 100)
             IN  IF lin < 0 THEN 0 ELSE IF lin > ProbScale THEN ProbScale ELSE lin

\* round(rating + k * (actual - expected), 2); actual is 0 or 1
update_elo(rating, expected, actual) ==
    rating + RoundDiv(K_FACTOR * (actual * ProbScale - expected),
                      ProbScale \div Cents(1))

\* round(e, 4) in units of 1e-4
Round4Prob(e) == RoundDiv(e, ProbScale \div 10000)

\* the rows of match_metadata.csv: match_id is the row's position in the file
MatchRow(i, c) ==
    [match_id |-> i, date |-> c[1], team_1 |-> c[2][1], team_2 |-> c[2][2],
     winner |-> c[3]]

MatchChoices == Dates \X Fixtures \X (Teams \cup {NoWinner})

\* list.sort(key=date) is stable: m goes after every row whose date is <= its own
RECURSIVE InsertByDate(_, _)
InsertByDate(sorted, m) ==
    IF sorted = <<>> THEN <<m>>
    ELSE IF sorted[Len(sorted)].date <= m.date THEN Append(sorted, m)
    ELSE Append(InsertByDate(SubSeq(sorted, 1, Len(sorted) - 1), m),
                sorted[Len(sorted)])

RECURSIVE SortByDate(_)
SortByDate(ms) ==
    IF ms = <<>> THEN <<>>
    ELSE InsertByDate(SortByDate(SubSeq(ms, 1, Len(ms) - 1)), ms[Len(ms)])

\* the rows in file order, the sort left out
load_matches_unsorted(ms) == ms

load_matches(ms) == SortByDate(ms)

NewStats == [matches_played |-> 0, wins |-> 0, losses |-> 0]

\* the rating is set without looking whether the team has one
SeedRatingAlways(rs, t) == Put(rs, t, Cents(INITIAL_RATING))

\* if team not in ratings: ratings[team] = INITIAL_RATING
SeedRating(rs, t) == IF t \in DOMAIN rs THEN rs ELSE Put(rs, t, Cents(INITIAL_RATING))
SeedStats(ts, t) == IF t \in DOMAIN ts THEN ts ELSE Put(ts, t, NewStats)
SeedOrder(ord, rs, t) == IF t \in DOMAIN rs THEN ord ELSE Append(ord, t)

\* s1 = 1.0 if winner == team_1 else 0.0
ActualScore(winner, team) == IF winner = team THEN 1 ELSE 0

\* only the first assignment survives
StoreRatingsFirstOnly(rs, t1, t2, new_r1, new_r2) == Put(rs, t1, new_r1)

\* ratings[team_1] = new_r1; ratings[team_2] = new_r2
StoreRatings(rs, t1, t2, new_r1, new_r2) == Put(Put(rs, t1, new_r1), t2, new_r2)

Played(ts, t) == Put(ts, t, [ts[t] EXCEPT !.matches_played = @ + 1])
Won(ts, t) == Put(ts, t, [ts[t] EXCEPT !.wins = @ + 1])
Lost(ts, t) == Put(ts, t, [ts[t] EXCEPT !.losses = @ + 1])

\* the counter updates that close the loop body
UpdateStats(ts, t1, t2, winner) ==
    LET played == Played(Played(ts, t1), t2)
    IN  IF winner = t1 THEN Lost(Won(played, t1), t2)
        ELSE Won(Lost(played, t1), t2)

HistoryRow(m, r1, r2, e1, e2, new_r1, new_r2) ==
    [match_id |-> m.match_id, date |-> m.date,
     team_1 |-> m.team_1, team_2 |-> m.team_2,
     pre_match_rating_team_1 |-> r1, pre_match_rating_team_2 |-> r2,
     rating_difference |-> r1 - r2,
     expected_win_probability_team_1 |-> Round4Prob(e1),
     expected_win_probability_team_2 |-> Round4Prob(e2),
     winner |-> m.winner,
     post_match_rating_team_1 |-> new_r1, post_match_rating_team_2 |-> new_r2]

\* sorted(ratings, key=rating, reverse=True): stable, so equal ratings keep
\* the dict's insertion order
RECURSIVE InsertByRating(_, _, _)
InsertByRating(sorted, t, rs) ==
    IF sorted = <<>> THEN <<t>>
    ELSE IF rs[sorted[Len(sorted)]] >= rs[t] THEN Append(sorted, t)
    ELSE Append(InsertByRating(SubSeq(sorted, 1, Len(sorted) - 1), t, rs),
                sorted[Len(sorted)])

RECURSIVE SortByRating(_, _)
SortByRating(ord, rs) ==
    IF ord = <<>> THEN <<>>
    ELSE InsertByRating(SortByRating(SubSeq(ord, 1, Len(ord) - 1), rs),
                        ord[Len(ord)], rs)

CurrentRows(ord, rs, ts) ==
    LET by == SortByRating(ord, rs)
    IN  [i \in 1..Len(by) |->
            [team |-> by[i], rating |-> rs[by[i]],
             matches_played |-> ts[by[i]].matches_played,
             wins |-> ts[by[i]].wins, losses |-> ts[by[i]].losses]]

EloInit ==
    /\ \E n \in 0..MaxMatches :
         \E c \in [1..n -> MatchChoices] :
            matches = [i \in 1..n |-> MatchRow(i, c[i])]
    /\ elo_pc = "load"
    /\ ModelIdle
    /\ BacktestIdle
    /\ MarketIdle
    /\ elo_i = 0
    /\ ratings = EmptyDict
    /\ team_stats = EmptyDict
    /\ team_order = <<>>
    /\ history_rows = <<>>
    /\ current_rows = <<>>

\* matches = load_matches(INPUT_PATH)
LoadMatches ==
    /\ elo_pc = "load"
    /\ matches' = load_matches(matches)
    /\ elo_pc' = "replay"
    /\ elo_i' = 1
    /\ UNCHANGED <<ratings, team_stats, team_order, history_rows, current_rows>>
    /\ UNCHANGED <<modelVars, backtestVars, marketVars>>

\* one pass of `for match in matches`
ProcessMatch ==
    /\ elo_pc = "replay"
    /\ elo_i <= Len(matches)
    /\ LET match == matches[elo_i]
           team_1 == match.team_1
           team_2 == match.team_2
           winner == match.winner
           seeded == SeedRating(SeedRating(ratings, team_1), team_2)
           stats  == SeedStats(SeedStats(team_stats, team_1), team_2)
           order  == SeedOrder(SeedOrder(team_order, ratings, team_1),
                               SeedRating(ratings, team_1), team_2)
           r1 == seeded[team_1]
           r2 == seeded[team_2]
           e1 == expected_score(r1, r2)
           e2 == expected_score(r2, r1)
           s1 == ActualScore(winner, team_1)
           s2 == ActualScore(winner, team_2)
           new_r1 == update_elo(r1, e1, s1)
           new_r2 == update_elo(r2, e2, s2)
       IN  /\ history_rows' = Append(history_rows,
                                 HistoryRow(match, r1, r2, e1, e2, new_r1, new_r2))
           /\ ratings' = StoreRatings(seeded, team_1, team_2, new_r1, new_r2)
           /\ team_stats' = UpdateStats(stats, team_1, team_2, winner)
           /\ team_order' = order
    /\ elo_i' = elo_i + 1
    /\ UNCHANGED <<matches, elo_pc, current_rows>>
    /\ UNCHANGED <<modelVars, backtestVars, marketVars>>

\* the loop is over: history and standings are written
WriteRatings ==
    /\ elo_pc = "replay"
    /\ elo_i > Len(matches)
    /\ current_rows' = CurrentRows(team_order, ratings, team_stats)
    /\ elo_pc' = "done"
    /\ UNCHANGED <<matches, elo_i, ratings, team_stats, team_order, history_rows>>
    /\ UNCHANGED <<modelVars, backtestVars, marketVars>>

EloNext == LoadMatches \/ ProcessMatch \/ WriteRatings

EloSpec == EloInit /\ [][EloNext]_vars

-----------------------------------------------------------------------------
(* Properties of the rating replay *)

SidesOf(h) == {h.team_1, h.team_2}
PreOf(h, t) == IF t = h.team_1 THEN h.pre_match_rating_team_1
               ELSE h.pre_match_rating_team_2
PostOf(h, t) == IF t = h.team_1 THEN h.post_match_rating_team_1
                ELSE h.post_match_rating_team_2
EarlierOf(i, t) == {j \in 1..(i - 1) : t \in SidesOf(history_rows[j])}
LastOf(S) == CHOOSE j \in S : \A k \in S : k <= j

\* C2: in the rating history, a team's pre-match rating is 1500 in its first
\* contest and otherwise the post-match rating of its most recent earlier
\* contest
C2_PreRatingChain ==
    \A i \in 1..Len(history_rows) :
        \A t \in SidesOf(history_rows[i]) :
            PreOf(history_rows[i], t) =
                IF EarlierOf(i, t) = {} THEN 1500 * 100
                ELSE PostOf(history_rows[LastOf(EarlierOf(i, t))], t)

\* a team whose most recent earlier contest is not the row just before, and
\* whose rating has moved away from 1500 by then
C2_Witness ==
    \E i \in 1..Len(history_rows) :
        \E t \in SidesOf(history_rows[i]) :
            /\ EarlierOf(i, t) # {}
            /\ LastOf(EarlierOf(i, t)) < i - 1
            /\ PreOf(history_rows[i], t) # 1500 * 100

ChangedNothing(t) ==
    /\ t \in DOMAIN ratings => ratings'[t] = ratings[t]
    /\ t \in DOMAIN team_stats => team_stats'[t] = team_stats[t]
    /\ t \notin DOMAIN ratings /\ t \in DOMAIN ratings' =>
          /\ ratings'[t] = 1500 * 100
          /\ team_stats'[t] = NewStats

\* C3: a contest with an empty winner field changes no rating and no
\* wins/losses/matches_played counter and emits no history row
C3_MissingOutcomeRejected ==
    [][(/\ elo_pc = "replay"
        /\ elo_i <= Len(matches)
        /\ matches[elo_i].winner = NoWinner)
       => (/\ \A t \in Teams : ChangedNothing(t)
           /\ history_rows' = history_rows)]_vars

ValidRow(h) == h.winner \in SidesOf(h)
ValidWins(t) ==
    Cardinality({i \in 1..Len(history_rows) :
                    ValidRow(history_rows[i]) /\ history_rows[i].winner = t})
ValidLosses(t) ==
    Cardinality({i \in 1..Len(history_rows) :
                    /\ ValidRow(history_rows[i])
                    /\ t \in SidesOf(history_rows[i])
                    /\ history_rows[i].winner # t})

\* C4: a contest row whose winner is absent or is not one of its two teams
\* is rejected: it changes no rating and no win/loss counter
C4_InvalidRowRejected ==
    /\ \A i \in 1..Len(history_rows) :
          ~ValidRow(history_rows[i]) =>
             \A t \in SidesOf(history_rows[i]) :
                PostOf(history_rows[i], t) = PreOf(history_rows[i], t)
    /\ \A t \in DOMAIN team_stats :
          /\ team_stats[t].wins = ValidWins(t)
          /\ team_stats[t].losses = ValidLosses(t)

\* C5: the history is in ascending date order, contests of one date keep
\* their input order, and each row's expected scores and post-match ratings
\* are computed from both teams' pre-match ratings
C5_ChronologicalReplay ==
    /\ \A i, j \in 1..Len(history_rows) :
          i < j =>
             /\ history_rows[i].date <= history_rows[j].date
             /\ history_rows[i].date = history_rows[j].date =>
                   history_rows[i].match_id < history_rows[j].match_id
    /\ \A i \in 1..Len(history_rows) :
          LET h == history_rows[i]
              r1 == h.pre_match_rating_team_1
              r2 == h.pre_match_rating_team_2
          IN  /\ h.expected_win_probability_team_1 = Round4Prob(expected_score(r1, r2))
              /\ h.expected_win_probability_team_2 = Round4Prob(expected_score(r2, r1))
              /\ h.post_match_rating_team_1 =
                    update_elo(r1, expected_score(r1, r2), ActualScore(h.winner, h.team_1))
              /\ h.post_match_rating_team_2 =
                    update_elo(r2, expected_score(r2, r1), ActualScore(h.winner, h.team_2))
    /\ elo_pc = "done" => Len(history_rows) = Len(matches)

\* a finished replay of a file that was not in date order and holds two
\* contests of one date
C5_Witness ==
    /\ elo_pc = "done"
    /\ \E i, j \in 1..Len(history_rows) :
          i < j /\ history_rows[i].match_id > history_rows[j].match_id
    /\ \E i, j \in 1..Len(history_rows) :
          i < j /\ history_rows[i].date = history_rows[j].date
    /\ \E i \in 1..Len(history_rows) :
          history_rows[i].pre_match_rating_team_1 #
             history_rows[i].pre_match_rating_team_2

-----------------------------------------------------------------------------
(* Context keys: scripts/build_statistical_bucket_model.py (copied verbatim *)
(* into live_model_calibration.py) and scripts/build_rolling_backtest.py   *)

\* A snapshot row carries innings_number, over_number, wickets_so_far and
\* runs_so_far as numbers (build_over_state_snapshots always writes them),
\* and target, balls_remaining, required_run_rate and elo_rating_difference
\* as fields that may be empty.  required_run_rate and elo_rating_difference
\* are in hundredths (both are written rounded to two decimals).

over_bucket(over_num) ==
    IF over_num <= 3 THEN "1-3"
    ELSE IF over_num <= 6 THEN "4-6"
    ELSE IF over_num <= 10 THEN "7-10"
    ELSE IF over_num <= 15 THEN "11-15"
    ELSE "16-20"

wickets_bucket(wickets) ==
    IF wickets <= 1 THEN "0-1"
    ELSE IF wickets <= 3 THEN "2-3"
    ELSE IF wickets <= 6 THEN "4-6"
    ELSE "7+"

\* pressure = rrr_val - current_rr with current_rr = runs_so_far / over_num
\* (0.0 when over_num is 0), compared with -4, -1, 1, 4; both sides of every
\* comparison are multiplied by 100 * over_num
PressureLabel(rrr, runs_so_far, over_num) ==
    LET m == IF over_num > 0 THEN over_num ELSE 1
        pressure == rrr * m - (IF over_num > 0 THEN 100 * runs_so_far ELSE 0)
    IN  IF pressure <= -400 * m THEN "very_low"
        ELSE IF pressure <= -100 * m THEN "low"
        ELSE IF pressure <= 100 * m THEN "neutral"
        ELSE IF pressure <= 400 * m THEN "high"
        ELSE "very_high"

\* build_statistical_bucket_model.run_pressure_bucket: float("") on an empty
\* required_run_rate raises ValueError
run_pressure_bucket(row) ==
    IF row.innings_number = 1 THEN "first_innings"
    ELSE IF row.target = Blank \/ row.balls_remaining = Blank THEN "first_innings"
    ELSE IF row.required_run_rate = Blank THEN "ValueError"
    ELSE PressureLabel(row.required_run_rate[1], row.runs_so_far, row.over_number)

\* build_rolling_backtest.run_pressure_bucket
backtest_run_pressure_bucket(row) ==
    IF row.innings_number = 1 THEN "first_innings"
    ELSE IF row.required_run_rate = Blank THEN "first_innings"
    ELSE PressureLabel(row.required_run_rate[1], row.runs_so_far, row.over_number)

\* the neutral band without its lower end
elo_diff_bucket_open(elo_diff) ==
    IF elo_diff = Blank THEN "neutral"
    ELSE IF elo_diff[1] > Cents(75) THEN "strong_advantage"
    ELSE IF elo_diff[1] > Cents(25) THEN "moderate_advantage"
    ELSE IF elo_diff[1] > Cents(-25) THEN "neutral"
    ELSE IF elo_diff[1] >= Cents(-75) THEN "moderate_disadvantage"
    ELSE "strong_disadvantage"

elo_diff_bucket(elo_diff) ==
    IF elo_diff = Blank THEN "neutral"
    ELSE IF elo_diff[1] > Cents(75) THEN "strong_advantage"
    ELSE IF elo_diff[1] > Cents(25) THEN "moderate_advantage"
    ELSE IF elo_diff[1] >= Cents(-25) THEN "neutral"
    ELSE IF elo_diff[1] >= Cents(-75) THEN "moderate_disadvantage"
    ELSE "strong_disadvantage"

get_statistical_win_probability(state_row) ==
    <<over_bucket(state_row.over_number), wickets_bucket(state_row.wickets_so_far),
      run_pressure_bucket(state_row), elo_diff_bucket(state_row.elo_rating_difference)>>

bucketize(row) ==
    <<over_bucket(row.over_number), wickets_bucket(row.wickets_so_far),
      backtest_run_pressure_bucket(row), elo_diff_bucket(row.elo_rating_difference)>>

\* The kinds of snapshot row the populations are drawn from: a first-innings
\* row, and four rows that differ from it in one dimension of the key each
FirstInningsRow ==
    [innings_number |-> 1, over_number |-> 2, wickets_so_far |-> 0,
     runs_so_far |-> 15, target |-> Blank, balls_remaining |-> Blank,
     required_run_rate |-> Blank, elo_rating_difference |-> Val(0)]

FavouriteRow == [FirstInningsRow EXCEPT !.elo_rating_difference = Val(Cents(30))]

ChaseRow ==
    [FirstInningsRow EXCEPT !.innings_number = 2, !.runs_so_far = 16,
                            !.target = Val(161), !.balls_remaining = Val(108),
                            !.required_run_rate = Val(806)]

TwoDownRow == [FirstInningsRow EXCEPT !.wickets_so_far = 2]

FifthOverRow == [FirstInningsRow EXCEPT !.over_number = 5, !.runs_so_far = 40]

RowKinds == {FirstInningsRow, FavouriteRow, ChaseRow, TwoDownRow, FifthOverRow}

\* a population: how many rows of each kind, with the batting side the
\* eventual winner (TRUE) or not (FALSE)
SnapshotTypes == RowKinds \X BOOLEAN
NoSnapshots == [t \in SnapshotTypes |-> 0]
BatchSizes == {1, 49}
MaxBatches == 3

Present(pop) == {t \in DOMAIN pop : pop[t] > 0}
AddRows(pop, t, n) == [pop EXCEPT ![t] = @ + n]

\* bucket_counts of build_statistical_bucket_model: {"total", "wins"} per
\* context key, filled in one pass over the rows
bucket_counts_of(pop) ==
    [k \in {get_statistical_win_probability(t[1]) : t \in Present(pop)} |->
        [total |-> SumOver({t \in Present(pop) :
                        get_statistical_win_probability(t[1]) = k}, pop),
         wins  |-> SumOver({t \in Present(pop) :
                        get_statistical_win_probability(t[1]) = k /\ t[2]}, pop)]]

\* counts of build_model_from_rows: the same tally under bucketize
counts_of(train_rows) ==
    [k \in {bucketize(t[1]) : t \in Present(train_rows)} |->
        [total |-> SumOver({t \in Present(train_rows) :
                        bucketize(t[1]) = k}, train_rows),
         wins  |-> SumOver({t \in Present(train_rows) :
                        bucketize(t[1]) = k /\ t[2]}, train_rows)]]

\* round(wins / total, 4) in units of 1e-4
Round4(wins, total) == RoundDiv(wins * 10000, total)

-----------------------------------------------------------------------------
(* scripts/build_statistical_bucket_model.py, build_bucket_stability_audit.py *)

build_statistical_bucket_model(pop) ==
    LET bucket_counts == bucket_counts_of(pop)
    IN  [k \in DOMAIN bucket_counts |->
            [total_samples |-> bucket_counts[k].total,
             batting_team_wins |-> bucket_counts[k].wins,
             win_probability |->
                IF bucket_counts[k].total > 0
                THEN Round4(bucket_counts[k].wins, bucket_counts[k].total)
                ELSE 0]]

\* the audit renames total_samples to sample_size; the standard error and
\* confidence bounds it adds are copied through the later stages unread
build_bucket_stability_audit(rows) ==
    [k \in DOMAIN rows |->
        [sample_size |-> rows[k].total_samples,
         batting_team_wins |-> rows[k].batting_team_wins,
         win_probability |-> rows[k].win_probability]]

-----------------------------------------------------------------------------
(* scripts/build_stabilized_model.py *)

MIN_SAMPLE == 50

Prefix(k, n) == SubSeq(k, 1, n)

\* the pools assigned with = where the code adds with +=: each holds the
\* counts of one of its rows
PooledRowsOverwritten(rows, n) ==
    [p \in {Prefix(k, n) : k \in DOMAIN rows} |->
        LET last == CHOOSE k \in DOMAIN rows : Prefix(k, n) = p
        IN  [total |-> rows[last].sample_size,
             wins  |-> rows[last].batting_team_wins]]

\* level2 / level3 / level4: totals and wins pooled over the bucket rows that
\* share the first n labels of the key
PooledRows(rows, n) ==
    [p \in {Prefix(k, n) : k \in DOMAIN rows} |->
        [total |-> SumOver({k \in DOMAIN rows : Prefix(k, n) = p},
                           [k \in DOMAIN rows |-> rows[k].sample_size]),
         wins  |-> SumOver({k \in DOMAIN rows : Prefix(k, n) = p},
                           [k \in DOMAIN rows |-> rows[k].batting_team_wins])]]

\* a probability wins / total kept exact, as <<numerator, denominator>>
Ratio(wins, total) == <<wins, total>>
Half == Ratio(1, 2)

\* global_wins / global_total if global_total > 0 else 0.5
GlobalProb(global_wins, global_total) ==
    IF global_total > 0 THEN Ratio(global_wins, global_total) ELSE Half

\* if n >= MIN_SAMPLE
UsesRawStrict(n) == n > MIN_SAMPLE

UsesRaw(n) == n >= MIN_SAMPLE

\* level 3 consulted before level 2
FallbackLevelCoarseFirst(n, total2, total3, total4) ==
    IF UsesRaw(n) THEN 1
    ELSE IF total3 >= MIN_SAMPLE THEN 3
    ELSE IF total2 >= MIN_SAMPLE THEN 2
    ELSE IF total4 >= MIN_SAMPLE THEN 4
    ELSE 5

\* the if / elif chain that picks the level
FallbackLevel(n, total2, total3, total4) ==
    IF UsesRaw(n) THEN 1
    ELSE IF total2 >= MIN_SAMPLE THEN 2
    ELSE IF total3 >= MIN_SAMPLE THEN 3
    ELSE IF total4 >= MIN_SAMPLE THEN 4
    ELSE 5

build_stabilized_model(rows) ==
    LET level2 == PooledRows(rows, 3)
        level3 == PooledRows(rows, 2)
        level4 == PooledRows(rows, 1)
        global_total == SumOver(DOMAIN rows, [k \in DOMAIN rows |-> rows[k].sample_size])
        global_wins == SumOver(DOMAIN rows, [k \in DOMAIN rows |-> rows[k].batting_team_wins])
        global_prob == GlobalProb(global_wins, global_total)
        OutputRow(k) ==
            LET r == rows[k]
                k2 == Prefix(k, 3)
                k3 == Prefix(k, 2)
                k4 == Prefix(k, 1)
                level == FallbackLevel(r.sample_size, level2[k2].total,
                                       level3[k3].total, level4[k4].total)
                \* round(final_prob, 4); win_probability is already rounded
                final == CASE level = 1 -> r.win_probability
                           [] level = 2 -> Round4(level2[k2].wins, level2[k2].total)
                           [] level = 3 -> Round4(level3[k3].wins, level3[k3].total)
                           [] level = 4 -> Round4(level4[k4].wins, level4[k4].total)
                           [] OTHER -> Round4(global_prob[1], global_prob[2])
            IN  [sample_size |-> r.sample_size,
                 batting_team_wins |-> r.batting_team_wins,
                 win_probability |-> r.win_probability,
                 final_stabilized_probability |-> final,
                 fallback_level |-> level]
    IN  [k \in DOMAIN rows |-> OutputRow(k)]

-----------------------------------------------------------------------------
(* scripts/build_rolling_backtest.py: build_model_from_rows and its lookup *)

BACKTEST_MIN_SAMPLE == 50

\* totals and wins pooled over the keys of counts that share the first n
\* labels; a defaultdict, so a prefix never seen reads as zero
PooledCounts(counts, n, p) ==
    [total |-> SumOver({k \in DOMAIN counts : Prefix(k, n) = p},
                       [k \in DOMAIN counts |-> counts[k].total]),
     wins  |-> SumOver({k \in DOMAIN counts : Prefix(k, n) = p},
                       [k \in DOMAIN counts |-> counts[k].wins])]

\* lookup(row) of the model built from train_rows: an exact ratio
build_model_from_rows(train_rows, row) ==
    LET counts == counts_of(train_rows)
        global == PooledCounts(counts, 0, <<>>)
        global_prob == GlobalProb(global.wins, global.total)
        k1 == bucketize(row)
        l2 == PooledCounts(counts, 3, Prefix(k1, 3))
        l3 == PooledCounts(counts, 2, Prefix(k1, 2))
        l4 == PooledCounts(counts, 1, Prefix(k1, 1))
    IN  IF k1 \in DOMAIN counts /\ counts[k1].total >= BACKTEST_MIN_SAMPLE
        THEN Ratio(counts[k1].wins, counts[k1].total)
        ELSE IF l2.total >= BACKTEST_MIN_SAMPLE THEN Ratio(l2.wins, l2.total)
        ELSE IF l3.total >= BACKTEST_MIN_SAMPLE THEN Ratio(l3.wins, l3.total)
        ELSE IF l4.total >= BACKTEST_MIN_SAMPLE THEN Ratio(l4.wins, l4.total)
        ELSE global_prob

-----------------------------------------------------------------------------
(* The model pipeline over one snapshot file *)

ModelInit ==
    /\ EloIdle
    /\ BacktestIdle
    /\ MarketIdle
    /\ snapshots = NoSnapshots
    /\ batches = 0
    /\ model_pc = "collect"
    /\ bucket_rows = EmptyDict
    /\ audit_rows = EmptyDict
    /\ stabilized_rows = EmptyDict
    /\ answer = NoAnswer

\* upstream writes n more rows of one kind to the snapshot file
AddSnapshots ==
    /\ model_pc = "collect"
    /\ batches < MaxBatches
    /\ \E t \in SnapshotTypes, n \in BatchSizes :
          snapshots' = AddRows(snapshots, t, n)
    /\ batches' = batches + 1
    /\ UNCHANGED <<model_pc, bucket_rows, audit_rows, stabilized_rows, answer>>
    /\ UNCHANGED <<eloVars, backtestVars, marketVars>>

BuildStatisticalBucketModel ==
    /\ model_pc = "collect"
    /\ bucket_rows' = build_statistical_bucket_model(snapshots)
    /\ model_pc' = "bucketed"
    /\ UNCHANGED <<snapshots, batches, audit_rows, stabilized_rows, answer>>
    /\ UNCHANGED <<eloVars, backtestVars, marketVars>>

BuildBucketStabilityAudit ==
    /\ model_pc = "bucketed"
    /\ audit_rows' = build_bucket_stability_audit(bucket_rows)
    /\ model_pc' = "audited"
    /\ UNCHANGED <<snapshots, batches, bucket_rows, stabilized_rows, answer>>
    /\ UNCHANGED <<eloVars, backtestVars, marketVars>>

BuildStabilizedModel ==
    /\ model_pc = "audited"
    /\ stabilized_rows' = build_stabilized_model(audit_rows)
    /\ model_pc' = "stabilized"
    /\ UNCHANGED <<snapshots, batches, bucket_rows, audit_rows, answer>>
    /\ UNCHANGED <<eloVars, backtestVars, marketVars>>

\* live_model_calibration: prob = model_lookup.get(key); None is counted in
\* no_bucket and the row is passed over
CalibrationLookup ==
    /\ model_pc = "stabilized"
    /\ \E row \in RowKinds :
          LET key == get_statistical_win_probability(row)
          IN  answer' =
                 IF key \in DOMAIN stabilized_rows
                 THEN [by |-> "live_model_calibration", row |-> row, found |-> TRUE,
                       num |-> stabilized_rows[key].final_stabilized_probability,
                       den |-> 10000]
                 ELSE [by |-> "live_model_calibration", row |-> row, found |-> FALSE,
                       num |-> 0, den |-> 1]
    /\ model_pc' = "answered"
    /\ UNCHANGED <<snapshots, batches, bucket_rows, audit_rows, stabilized_rows>>
    /\ UNCHANGED <<eloVars, backtestVars, marketVars>>

\* build_model_from_rows over the same file, and one call of its lookup
BacktestLookup ==
    /\ model_pc = "stabilized"
    /\ \E row \in RowKinds :
          LET pred == build_model_from_rows(snapshots, row)
          IN  answer' = [by |-> "build_model_from_rows", row |-> row, found |-> TRUE,
                         num |-> pred[1], den |-> pred[2]]
    /\ model_pc' = "answered"
    /\ UNCHANGED <<snapshots, batches, bucket_rows, audit_rows, stabilized_rows>>
    /\ UNCHANGED <<eloVars, backtestVars, marketVars>>

ModelNext ==
    \/ AddSnapshots
    \/ BuildStatisticalBucketModel
    \/ BuildBucketStabilityAudit
    \/ BuildStabilizedModel
    \/ CalibrationLookup
    \/ BacktestLookup

ModelSpec == ModelInit /\ [][ModelNext]_vars

-----------------------------------------------------------------------------
(* Properties of the stabilized model *)

\* the rows of the snapshot file that share the labels of key that level
\* keeps: all four at level 1, one fewer per level, none at level 5
PoolOf(level, key, KeyOf(_)) ==
    {t \in Present(snapshots) :
        Prefix(KeyOf(t[1]), 5 - level) = Prefix(key, 5 - level)}
PoolTotal(level, key, KeyOf(_)) == SumOver(PoolOf(level, key, KeyOf), snapshots)
PoolWins(level, key, KeyOf(_)) ==
    SumOver({t \in PoolOf(level, key, KeyOf) : t[2]}, snapshots)

\* the first of the levels 1..4 whose pool holds at least 50 rows, else 5
SupplyingLevel(key, KeyOf(_)) ==
    LET enough == {l \in 1..4 : PoolTotal(l, key, KeyOf) >= 50}
    IN  IF enough = {} THEN 5
        ELSE CHOOSE l \in enough : \A m \in enough : l <= m

PopulationSize == SumOver(DOMAIN snapshots, snapshots)

\* C6: every bucket's stabilized probability is the pooled rate of the first
\* level, in the order 1, 2, 3, 4, whose pooled count is at least 50, and the
\* global rate with level 5 if there is none; fallback_level is that level.
\* The backtest's lookup answers with the rate of the same level.
C6_FirstQualifyingLevel ==
    /\ \A k \in DOMAIN stabilized_rows :
          LET lv == SupplyingLevel(k, get_statistical_win_probability)
          IN  /\ stabilized_rows[k].fallback_level = lv
              /\ stabilized_rows[k].final_stabilized_probability =
                    Round4(PoolWins(lv, k, get_statistical_win_probability),
                           PoolTotal(lv, k, get_statistical_win_probability))
    /\ answer.by = "build_model_from_rows" /\ PopulationSize > 0 =>
          LET k == bucketize(answer.row)
              lv == SupplyingLevel(k, bucketize)
          IN  answer.num * PoolTotal(lv, k, bucketize) =
                 PoolWins(lv, k, bucketize) * answer.den

\* a built model in which one bucket is served by level 2 with a rate that
\* is not its own, and another by the global rate
C6_Witness ==
    /\ model_pc = "stabilized"
    /\ \E k \in DOMAIN stabilized_rows :
          /\ stabilized_rows[k].fallback_level = 2
          /\ stabilized_rows[k].final_stabilized_probability #
                stabilized_rows[k].win_probability
    /\ \E k \in DOMAIN stabilized_rows : stabilized_rows[k].fallback_level = 5

\* C7: a bucket with at least 50 rows of its own gets its raw probability and
\* level 1; a bucket with 49 rows gets level 2 or higher
C7_RawAtThreshold ==
    \A k \in DOMAIN stabilized_rows :
        LET n == PoolTotal(1, k, get_statistical_win_probability)
            w == PoolWins(1, k, get_statistical_win_probability)
        IN  /\ n >= 50 =>
                 /\ stabilized_rows[k].fallback_level = 1
                 /\ stabilized_rows[k].final_stabilized_probability = Round4(w, n)
                 /\ stabilized_rows[k].final_stabilized_probability =
                       stabilized_rows[k].win_probability
            /\ n = 49 => stabilized_rows[k].fallback_level >= 2

\* a built model with a bucket of exactly 50 rows and one of exactly 49 whose
\* stabilized probability is not its raw one
C7_Witness ==
    /\ model_pc = "stabilized"
    /\ \E k \in DOMAIN stabilized_rows :
          /\ stabilized_rows[k].sample_size = 50
          /\ stabilized_rows[k].fallback_level = 1
    /\ \E k \in DOMAIN stabilized_rows :
          /\ stabilized_rows[k].sample_size = 49
          /\ stabilized_rows[k].final_stabilized_probability #
                stabilized_rows[k].win_probability

\* C8: over a non-empty population every lookup of a valid context key,
\* seen in the population or not, returns a probability between 0 and 1
C8_TotalCoverage ==
    answer.by # "nobody" /\ PopulationSize > 0 =>
        /\ answer.found
        /\ 0 <= answer.num
        /\ answer.num <= answer.den

\* C9: a model built on an empty population returns no probability for any
\* key
C9_EmptyPopulationFatal ==
    answer.by # "nobody" /\ PopulationSize = 0 => ~answer.found

\* the pooled counts of key k at the levels 1..5 of build_stabilized_model,
\* read from the tables level2, level3, level4 it builds over the audited
\* rows and from its global counts
StabilizedPools(k, level2, level3, level4, global) ==
    <<[total |-> audit_rows[k].sample_size, wins |-> audit_rows[k].batting_team_wins],
      level2[Prefix(k, 3)], level3[Prefix(k, 2)], level4[Prefix(k, 1)], global>>

\* the same for build_model_from_rows over the snapshot file
BacktestPools(k, counts) ==
    <<counts[k], PooledCounts(counts, 3, Prefix(k, 3)),
      PooledCounts(counts, 2, Prefix(k, 2)),
      PooledCounts(counts, 1, Prefix(k, 1)), PooledCounts(counts, 0, <<>>)>>

Nested(pools) ==
    \A l \in 1..4 :
        /\ pools[l].total <= pools[l + 1].total
        /\ pools[l].wins <= pools[l + 1].wins

BelowUpTo(pools, level) == \A l \in 1..4 : l < level => pools[l].total < 50

\* C25: for every key of a built model the pooled counts and the pooled
\* favourable counts grow from the key's own bucket through the levels 2, 3
\* and 4 to the global pool, and a key reported at fallback level k has
\* fewer than 50 rows in the pool of every level below k
C25_NestedPools ==
    /\ stabilized_rows # EmptyDict =>
          LET level2 == PooledRows(audit_rows, 3)
              level3 == PooledRows(audit_rows, 2)
              level4 == PooledRows(audit_rows, 1)
              global == PooledRows(audit_rows, 0)[<<>>]
          IN  \A k \in DOMAIN stabilized_rows :
                 LET pools == StabilizedPools(k, level2, level3, level4, global)
                 IN  /\ Nested(pools)
                     /\ BelowUpTo(pools, stabilized_rows[k].fallback_level)
    /\ answer.by = "build_model_from_rows" =>
          LET counts == counts_of(snapshots)
          IN  \A k \in DOMAIN counts : Nested(BacktestPools(k, counts))

\* the pools of key k as C25 reads them
PoolTotals(k) ==
    <<audit_rows[k].sample_size, PooledRows(audit_rows, 3)[Prefix(k, 3)].total,
      PooledRows(audit_rows, 2)[Prefix(k, 2)].total,
      PooledRows(audit_rows, 1)[Prefix(k, 1)].total,
      PooledRows(audit_rows, 0)[<<>>].total>>

\* a built model with a key served by level 3 whose pools grow strictly from
\* its own bucket to level 3 and again to the global pool
C25_Witness ==
    /\ model_pc = "stabilized"
    /\ \E k \in DOMAIN stabilized_rows :
          /\ stabilized_rows[k].fallback_level = 3
          /\ PoolTotals(k)[1] < PoolTotals(k)[3]
          /\ PoolTotals(k)[3] < PoolTotals(k)[5]

-----------------------------------------------------------------------------
(* scripts/build_rolling_backtest.py: the rolling windows *)

TRAIN_YEARS == 3

MaxRowBatches == 3
BacktestBatchSizes == {50}

\* a row's date is the date of its contest in match_metadata.csv, or empty
\* when the contest is not there or has no date; only its year is read
DataYears == 2018..2023
RowDates == {Val(y) : y \in DataYears} \cup {Blank}
BacktestKinds == {FirstInningsRow, FavouriteRow}
BacktestTypes == BacktestKinds \X BOOLEAN \X RowDates
NoRows == [t \in BacktestTypes |-> 0]

\* the ascending sequence of the members of a set of numbers
RECURSIVE SortedSeq(_)
SortedSeq(S) ==
    IF S = {} THEN <<>>
    ELSE LET least == CHOOSE x \in S : \A y \in S : x <= y
         IN  <<least>> \o SortedSeq(S \ {least})

\* sorted(set(get_year(r["date"]) for r in all_rows if r.get("date", "")))
AllYears(pop) == SortedSeq({t[3][1] : t \in {u \in Present(pop) : u[3] # Blank}})

\* get_year(r["date"]) is int(""[:4]) for a row without a date: ValueError
GetYearRaises(pop) == \E t \in Present(pop) : t[3] = Blank

\* the partition reaches into the test year
RowsThroughTestYear(pop, from, to) ==
    [t \in DOMAIN pop |->
        IF t[3] # Blank /\ from <= t[3][1] /\ t[3][1] <= to + 1 THEN pop[t] ELSE 0]

\* [r for r in all_rows if from <= get_year(r["date"]) <= to]
RowsBetween(pop, from, to) ==
    [t \in DOMAIN pop |->
        IF t[3] # Blank /\ from <= t[3][1] /\ t[3][1] <= to THEN pop[t] ELSE 0]

\* the row kinds and outcomes a partition holds
KindsIn(pop) == {<<t[1], t[2]>> : t \in Present(pop)}
RowCount(pop) == SumOver(DOMAIN pop, pop)
CountOf(pop, kw) == SumOver({t \in Present(pop) : <<t[1], t[2]>> = kw}, pop)

\* predicted_win = 1 if pred >= 0.5 else 0, compared with the outcome
CallIsCorrect(pred, won) == (2 * pred[1] >= pred[2]) = won

\* the body of the loop for a window that is evaluated: one prediction per
\* test row (rows of one kind get one prediction), and the number of correct
\* calls; the squared-error and log-loss sums and the deciles are floating
\* point functions of the same predictions
EvaluateWindow(num, train_start, train_end, test_year, train_rows, test_rows) ==
    LET predictions == [kw \in KindsIn(test_rows) |->
                           build_model_from_rows(train_rows, kw[1])]
        right == {kw \in KindsIn(test_rows) : CallIsCorrect(predictions[kw], kw[2])}
    IN  [window |-> num, train_start |-> train_start, train_end |-> train_end,
         test_year |-> test_year,
         train_rows |-> RowCount(train_rows), test_rows |-> RowCount(test_rows),
         predictions |-> predictions,
         correct |-> SumOver(right, [kw \in right |-> CountOf(test_rows, kw)])]

BacktestInit ==
    /\ EloIdle
    /\ ModelIdle
    /\ MarketIdle
    /\ all_rows = NoRows
    /\ row_batches = 0
    /\ bt_pc = "collect"
    /\ all_years = <<>>
    /\ year_i = 0
    /\ window_num = 0
    /\ results = <<>>
    /\ results_file = Blank

\* upstream writes n more rows of one kind for contests of one date
AddRowBatch ==
    /\ bt_pc = "collect"
    /\ row_batches < MaxRowBatches
    /\ \E t \in BacktestTypes, n \in BacktestBatchSizes :
          all_rows' = AddRows(all_rows, t, n)
    /\ row_batches' = row_batches + 1
    /\ UNCHANGED <<bt_pc, all_years, year_i, window_num, results, results_file>>
    /\ UNCHANGED <<eloVars, modelVars, marketVars>>

\* the files are read and the years collected
StartBacktest ==
    /\ bt_pc = "collect"
    /\ all_years' = AllYears(all_rows)
    /\ year_i' = 1
    /\ bt_pc' = "loop"
    /\ UNCHANGED <<all_rows, row_batches, window_num, results, results_file>>
    /\ UNCHANGED <<eloVars, modelVars, marketVars>>

\* one pass of `for i in range(len(all_years))`
BacktestYear ==
    /\ bt_pc = "loop"
    /\ year_i <= Len(all_years)
    /\ LET test_year == all_years[year_i]
           train_end == test_year - 1
           train_start == train_end - TRAIN_YEARS + 1
           train_rows == RowsBetween(all_rows, train_start, train_end)
           test_rows == RowsBetween(all_rows, test_year, test_year)
       IN  IF train_start < all_years[1]
           THEN /\ year_i' = year_i + 1
                /\ UNCHANGED <<bt_pc, window_num, results>>
           ELSE IF GetYearRaises(all_rows)
           THEN /\ bt_pc' = "failed"
                /\ UNCHANGED <<year_i, window_num, results>>
           ELSE IF RowCount(train_rows) = 0 \/ RowCount(test_rows) = 0
           THEN /\ year_i' = year_i + 1
                /\ UNCHANGED <<bt_pc, window_num, results>>
           ELSE /\ window_num' = window_num + 1
                /\ results' = Append(results,
                      EvaluateWindow(window_num + 1, train_start, train_end,
                                     test_year, train_rows, test_rows))
                /\ year_i' = year_i + 1
                /\ UNCHANGED bt_pc
    /\ UNCHANGED <<all_rows, row_batches, all_years, results_file>>
    /\ UNCHANGED <<eloVars, modelVars, marketVars>>

\* the results are written; the summary then divides by len(results)
WriteBacktest ==
    /\ bt_pc = "loop"
    /\ year_i > Len(all_years)
    /\ results_file' = Val(results)
    /\ bt_pc' = IF results = <<>> THEN "failed" ELSE "done"
    /\ UNCHANGED <<all_rows, row_batches, all_years, year_i, window_num, results>>
    /\ UNCHANGED <<eloVars, modelVars, marketVars>>

BacktestNext == AddRowBatch \/ StartBacktest \/ BacktestYear \/ WriteBacktest

BacktestSpec == BacktestInit /\ [][BacktestNext]_vars

-----------------------------------------------------------------------------
(* Properties of the rolling backtest *)

Dated(pop) == {t \in Present(pop) : t[3] # Blank}
DatedIn(pop, from, to) ==
    {t \in Dated(pop) : from <= t[3][1] /\ t[3][1] <= to}

\* the population with the outcome of every row of year y inverted
InvertYear(pop, y) ==
    [t \in DOMAIN pop |->
        IF t[3] = Val(y) THEN pop[<<t[1], ~t[2], t[3]>>] ELSE pop[t]]

\* C1: the model that scores test year Y is built from the rows dated in
\* Y-3 .. Y-1 and from nothing else: the run over the population with every
\* outcome of year Y inverted makes the same prediction for every test row
C1_TemporalIsolation ==
    \A w \in 1..Len(results) :
        LET r == results[w]
            y == r.test_year
        IN  /\ r.train_rows = SumOver(DatedIn(all_rows, y - 3, y - 1), all_rows)
            /\ \A kw \in DOMAIN r.predictions :
                  r.predictions[kw] =
                     build_model_from_rows(
                        RowsBetween(InvertYear(all_rows, y), y - 3, y - 1), kw[1])

\* a window whose model is certain of a win for rows that all lost in the
\* test year: the test outcomes are the inverse of the training ones
C1_Witness ==
    \E w \in 1..Len(results) :
        /\ results[w].test_rows > 0
        /\ results[w].correct = 0
        /\ \A kw \in DOMAIN results[w].predictions :
              results[w].predictions[kw] = <<50, 50>>

YearsOfData == {t[3][1] : t \in Dated(all_rows)}

\* Y - 3 is not before the earliest year, and both partitions hold a row
Eligible(y) ==
    /\ y \in YearsOfData
    /\ \E e \in YearsOfData : e <= y - 3
    /\ DatedIn(all_rows, y - 3, y - 1) # {}
    /\ DatedIn(all_rows, y, y) # {}

\* C10: when the run is over, the windows written are exactly the eligible
\* test years in ascending order, numbered 1, 2, 3, ... without a gap
C10_WindowSelection ==
    bt_pc \in {"done", "failed"} =>
        /\ results_file # Blank
        /\ LET written == results_file[1]
               expected == SortedSeq({y \in YearsOfData : Eligible(y)})
           IN  /\ Len(written) = Len(expected)
               /\ \A w \in 1..Len(written) :
                     /\ written[w].window = w
                     /\ written[w].test_year = expected[w]

Undated(pop) == Present(pop) \ Dated(pop)

\* C19: a run over rows of which some have no date is not halted by them:
\* when it is over and some test year was eligible, the results are written,
\* there is one window per eligible test year, and the partitions of every
\* window count the dated rows of their years and no undated row
C19_UndatedRowDoesNotHalt ==
    (/\ bt_pc \in {"done", "failed"}
     /\ Undated(all_rows) # {}
     /\ \E y \in YearsOfData : Eligible(y)) =>
        /\ results_file # Blank
        /\ LET written == results_file[1]
           IN  /\ Len(written) = Cardinality({y \in YearsOfData : Eligible(y)})
               /\ \A w \in 1..Len(written) :
                     LET y == written[w].test_year
                     IN  /\ written[w].train_rows =
                               SumOver(DatedIn(all_rows, y - 3, y - 1), all_rows)
                         /\ written[w].test_rows =
                               SumOver(DatedIn(all_rows, y, y), all_rows)

-----------------------------------------------------------------------------
(* scripts/build_corrected_simulation.py (and, for the gross scenario,      *)
(* scripts/simulate_live_edge_85_plus.py): the in-play trade simulation.    *)
(* Edges, thresholds and probabilities are in hundredths, odds in           *)
(* hundredths, money (PnL, bankroll, drawdown, commission) in units of 1e-5 *)
(* of the unit stake.                                                       *)

MaxCandidates == 2
MaxContests == 6

COMMISSION_RATE == 50
SLIPPAGE_TICKS == 1
TICK_SIZE == 2
EXECUTION_DELAY_PENALTY == 1

\* one unit of stake, and the scale of a commission rate (per mille)
Stake == 1000 * 100
RateScale == 10 * 100

Scenarios == {"gross", "realistic", "worst_case"}
Thresholds == {0, 5}

\* the possible results of round(n / m) for m > 0: the nearer integer, and
\* either neighbour when n / m lies exactly halfway, where the binary
\* representation of the operands decides
RoundChoices(n, m) ==
    LET q == n \div m
        r == n - q * m
    IN  IF 2 * r < m THEN {q}
        ELSE IF 2 * r > m THEN {q + 1}
        ELSE {q, q + 1}

\* contest 1 is played on the later date, contest 2 on the earlier one
ContestDate(mid) == IF mid = 1 THEN 2 ELSE 1

CandidateRow(mid, inn, over, edge, odds, winner) ==
    [match_id |-> mid, date |-> ContestDate(mid), innings_number |-> inn,
     over_number |-> over, edge |-> edge, model_probability |-> 90,
     market_odds_1 |-> odds, market_prob_1 |-> 90 - edge,
     batting_team |-> "A", eventual_winner |-> winner]

\* rows of few contests, both innings, edges around the threshold
CandidateChoices ==
    {CandidateRow(mid, io[1], io[2], edge, 200, "A") :
        mid \in {1, 2}, io \in {<<1, 4>>, <<1, 5>>, <<2, 4>>}, edge \in {4, 6, 7}}

\* one row per contest, in file order, all well above the threshold: a win
\* at odds 2.00, a loss, or a win at odds 1.02
ContestKinds == {"evens", "lost", "near_certain"}

ContestRow(i, kind) ==
    CandidateRow(i, 1, 4, 20, IF kind = "near_certain" THEN 102 ELSE 200,
                 IF kind = "lost" THEN "B" ELSE "A")

CandidateFiles ==
    UNION {[1..n -> CandidateChoices] : n \in 0..MaxCandidates}

ContestFiles ==
    UNION {{[i \in 1..n |-> ContestRow(i, c[i])] : c \in [1..n -> ContestKinds]} :
                n \in 0..MaxContests}

\* the sort key of main: (date, match_id, int(innings_number), int(over_number))
KeyBefore(a, b) ==
    \/ a.date < b.date
    \/ a.date = b.date /\ a.match_id < b.match_id
    \/ a.date = b.date /\ a.match_id = b.match_id
          /\ a.innings_number < b.innings_number
    \/ a.date = b.date /\ a.match_id = b.match_id
          /\ a.innings_number = b.innings_number /\ a.over_number < b.over_number

\* list.sort is stable: a row goes behind the rows whose key is not larger
RECURSIVE InsertByKey(_, _)
InsertByKey(sorted, r) ==
    IF sorted = <<>> THEN <<r>>
    ELSE IF KeyBefore(r, Head(sorted)) THEN <<r>> \o sorted
    ELSE <<Head(sorted)>> \o InsertByKey(Tail(sorted), r)

RECURSIVE SortByKey(_)
SortByKey(rows) ==
    IF rows = <<>> THEN <<>>
    ELSE InsertByKey(SortByKey(SubSeq(rows, 1, Len(rows) - 1)), rows[Len(rows)])

\* edge - 0.01 in double precision: on the grid of hundredths the difference
\* falls short of the exact one in a single case, 0.06 - 0.01 =
\* 0.049999999999999996 < 0.05
PenaltyRoundsBelow == {<<6, 5>>}

effective_edge(edge, scen) ==
    IF scen \in {"realistic", "worst_case"}
    THEN edge - EXECUTION_DELAY_PENALTY
    ELSE edge

\* the comparison turned round: rows at or under the threshold pass
AboveThreshold(edge, thr, scen) == effective_edge(edge, scen) > thr

\* the test `effective_edge < threshold` of run_simulation
BelowThreshold(edge, thr, scen) ==
    \/ effective_edge(edge, scen) < thr
    \/ scen \in {"realistic", "worst_case"} /\ <<edge, thr>> \in PenaltyRoundsBelow

\* max(1.01, odds - ticks * TICK_SIZE)
apply_slippage(odds, ticks) ==
    LET slipped == odds - ticks * TICK_SIZE
    IN  IF slipped > 101 THEN slipped ELSE 101

\* commission charged on every settlement, losing ones included
apply_commission_always(profit, rate) ==
    (profit * (RateScale - rate)) \div RateScale

\* profit * (1.0 - rate) on positive proceeds only
apply_commission(profit, rate) ==
    IF profit > 0 THEN (profit * (RateScale - rate)) \div RateScale ELSE profit

ScenarioTicks(scen) ==
    IF scen = "realistic" THEN SLIPPAGE_TICKS
    ELSE IF scen = "worst_case" THEN SLIPPAGE_TICKS * 2
    ELSE 0

ScenarioRate(scen) ==
    IF scen = "realistic" THEN COMMISSION_RATE
    ELSE IF scen = "worst_case" THEN (COMMISSION_RATE * 3) \div 2
    ELSE 0

EffectiveOdds(raw_odds, scen) ==
    IF scen \in {"realistic", "worst_case"}
    THEN apply_slippage(raw_odds, ScenarioTicks(scen))
    ELSE raw_odds

\* (effective_odds - 1.0) if won else -1.0
GrossPnl(effective_odds, won) ==
    IF won THEN (effective_odds - 100) * (Stake \div 100) ELSE 0 - Stake

TradePnl(raw_odds, won, scen) ==
    IF scen \in {"realistic", "worst_case"}
    THEN apply_commission(GrossPnl(EffectiveOdds(raw_odds, scen), won),
                          ScenarioRate(scen))
    ELSE GrossPnl(raw_odds, won)

\* `first_only and mid in seen_matches`: the unit already holds a trade
UnitTaken(row, seen) == row.match_id \in seen

\* the trade record appended for an admitted row
TradeOf(row, scen) ==
    LET won == row.batting_team = row.eventual_winner
        eff == EffectiveOdds(row.market_odds_1, scen)
        gross_pnl == GrossPnl(eff, won)
        pnl == TradePnl(row.market_odds_1, won, scen)
    IN  [match_id |-> row.match_id, innings |-> row.innings_number,
         over |-> row.over_number, edge |-> row.edge, won |-> won, pnl |-> pnl,
         odds |-> row.market_odds_1, effective_odds |-> eff,
         commission |-> IF scen \in {"realistic", "worst_case"} /\ gross_pnl > 0
                        THEN gross_pnl - pnl ELSE 0]

\* the peak follows the bankroll down
PeakIsBankroll(pk, cumulative) == cumulative

\* peak = max(peak, cumulative)
NextPeak(pk, cumulative) == IF cumulative > pk THEN cumulative ELSE pk

\* the drawdown of the last trade only
LastDrawdown(mdd, pk, cumulative) == pk - cumulative

\* max_drawdown = max(max_drawdown, peak - cumulative)
NextDrawdown(mdd, pk, cumulative) ==
    IF pk - cumulative > mdd THEN pk - cumulative ELSE mdd

RECURSIVE SumPnl(_)
SumPnl(ts) == IF ts = <<>> THEN 0 ELSE ts[1].pnl + SumPnl(Tail(ts))

RECURSIVE SumEffectiveOdds(_)
SumEffectiveOdds(ts) ==
    IF ts = <<>> THEN 0 ELSE ts[1].effective_odds + SumEffectiveOdds(Tail(ts))

Wins(ts) == Cardinality({i \in 1..Len(ts) : ts[i].won})

EmptyResult(thr, scen) ==
    [threshold |-> thr, scenario |-> scen, total_trades |-> 0, wins |-> 0,
     losses |-> 0, win_rate |-> 0, total_staked |-> 0, profit |-> 0,
     roi_pct |-> 0, max_drawdown |-> 0, max_drawdown_pct |-> 0, avg_edge |-> 0,
     avg_market_prob |-> 0, avg_effective_odds |-> 0,
     avg_commission_paid |-> 0, total_commission |-> 0,
     total_slippage_cost |-> 0]

\* the return on the stake (profit plus stake) taken for the profit
RoiOnReturn(ts) ==
    {<<profit, roi>> \in
        (RoundChoices(SumPnl(ts), 10) \X
            UNION {RoundChoices(p + 10000 * Len(ts), Len(ts)) :
                        p \in RoundChoices(SumPnl(ts), 10)}) :
        roi \in RoundChoices(profit + 10000 * Len(ts), Len(ts))}

\* profit = round(sum of pnl, 4) and roi = round(profit / total * 100, 2),
\* for every way a halfway value may be rounded
RoiChoices(ts) ==
    {<<profit, roi>> \in
        (RoundChoices(SumPnl(ts), 10) \X
            UNION {RoundChoices(p, Len(ts)) : p \in RoundChoices(SumPnl(ts), 10)}) :
        roi \in RoundChoices(profit, Len(ts))}

SimInit ==
    /\ sim_rows \in CandidateFiles \cup ContestFiles
    /\ threshold \in Thresholds
    /\ scenario \in Scenarios
    /\ sim_pc = "load"
    /\ sim_i = 0
    /\ seen_matches = {}
    /\ trades = <<>>
    /\ bankroll_history = <<0>>
    /\ peak = 0
    /\ max_drawdown = 0
    /\ total_commission = 0
    /\ total_slippage = 0
    /\ edge_sum = 0
    /\ market_prob_sum = 0
    /\ sim_result = Blank
    /\ EloIdle
    /\ ModelIdle
    /\ BacktestIdle
    /\ PerOverIdle
    /\ FetchIdle
    /\ CompareIdle
    /\ KeyIdle
    /\ PreMatchIdle
    /\ TimestampIdle

\* main: read the rows of a data source and sort them
SortRows ==
    /\ sim_pc = "load"
    /\ sim_rows' = SortByKey(sim_rows)
    /\ sim_pc' = "loop"
    /\ sim_i' = 1
    /\ UNCHANGED <<threshold, scenario, seen_matches, trades, bankroll_history,
                   peak, max_drawdown, total_commission, total_slippage,
                   edge_sum, market_prob_sum, sim_result>>
    /\ UNCHANGED <<eloVars, modelVars, backtestVars, preVars, timestampVars, keyVars, compareVars, fetchVars, perOverVars>>

\* run_simulation: one pass of the for loop
SimulateRow ==
    /\ sim_pc = "loop"
    /\ sim_i <= Len(sim_rows)
    /\ LET row == sim_rows[sim_i]
       IN  IF BelowThreshold(row.edge, threshold, scenario)
              \/ UnitTaken(row, seen_matches)
           THEN UNCHANGED <<seen_matches, trades, bankroll_history, peak,
                            max_drawdown, total_commission, total_slippage,
                            edge_sum, market_prob_sum>>
           ELSE LET trade == TradeOf(row, scenario)
                    cumulative == bankroll_history[Len(bankroll_history)] + trade.pnl
                IN  /\ seen_matches' = seen_matches \cup {row.match_id}
                    /\ total_commission' = total_commission + trade.commission
                    /\ total_slippage' =
                          total_slippage + (trade.odds - trade.effective_odds)
                    /\ edge_sum' = edge_sum + row.edge
                    /\ market_prob_sum' = market_prob_sum + row.market_prob_1
                    /\ trades' = Append(trades, trade)
                    /\ bankroll_history' = Append(bankroll_history, cumulative)
                    /\ peak' = NextPeak(peak, cumulative)
                    /\ max_drawdown' =
                          NextDrawdown(max_drawdown, NextPeak(peak, cumulative),
                                       cumulative)
    /\ sim_i' = sim_i + 1
    /\ UNCHANGED <<sim_rows, sim_pc, threshold, scenario, sim_result>>
    /\ UNCHANGED <<eloVars, modelVars, backtestVars, preVars, timestampVars, keyVars, compareVars, fetchVars, perOverVars>>

\* run_simulation: the result record built after the loop
Summarise ==
    /\ sim_pc = "loop"
    /\ sim_i > Len(sim_rows)
    /\ IF trades = <<>>
       THEN sim_result' = Val(EmptyResult(threshold, scenario))
       ELSE LET total == Len(trades)
                wins == Wins(trades)
            IN  \E pr \in RoiChoices(trades) :
                \E profit2 \in RoundChoices(pr[1], 100) :
                \E win_rate \in RoundChoices(wins * 10000, total) :
                \E max_dd \in RoundChoices(max_drawdown, Stake \div 100) :
                \E max_dd_pct \in RoundChoices(max_drawdown, 10 * total) :
                \E avg_eff_odds \in RoundChoices(SumEffectiveOdds(trades) * 100, total) :
                \E avg_comm \in RoundChoices(total_commission, 10 * total) :
                \E avg_edge \in RoundChoices(edge_sum * 100, total) :
                \E avg_mkt_prob \in RoundChoices(market_prob_sum * 100, total) :
                \E commission2 \in RoundChoices(total_commission, Stake \div 100) :
                    sim_result' = Val(
                        [threshold |-> threshold, scenario |-> scenario,
                         total_trades |-> total, wins |-> wins,
                         losses |-> total - wins, win_rate |-> win_rate,
                         total_staked |-> total, profit |-> profit2,
                         roi_pct |-> pr[2], max_drawdown |-> max_dd,
                         max_drawdown_pct |-> max_dd_pct, avg_edge |-> avg_edge,
                         avg_market_prob |-> avg_mkt_prob,
                         avg_effective_odds |-> avg_eff_odds,
                         avg_commission_paid |-> avg_comm,
                         total_commission |-> commission2,
                         total_slippage_cost |-> total_slippage])
    /\ sim_pc' = "done"
    /\ UNCHANGED <<sim_rows, sim_i, threshold, scenario, seen_matches, trades,
                   bankroll_history, peak, max_drawdown, total_commission,
                   total_slippage, edge_sum, market_prob_sum>>
    /\ UNCHANGED <<eloVars, modelVars, backtestVars, preVars, timestampVars, keyVars, compareVars, fetchVars, perOverVars>>

SimNext == SortRows \/ SimulateRow \/ Summarise

SimSpec == SimInit /\ [][SimNext]_vars

-----------------------------------------------------------------------------
(* Claims about the in-play trade simulation *)

\* the rows the loop has already passed
Passed == IF sim_pc \in {"loop", "done"} THEN 1..(sim_i - 1) ELSE {}

SameUnit(a, b) ==
    a.match_id = b.match_id /\ a.innings_number = b.innings_number

\* the edge, after the penalty of the scenario, is at least the threshold
MeetsThreshold(row) == effective_edge(row.edge, scenario) >= threshold

TradeUnit(t) == [match_id |-> t.match_id, innings_number |-> t.innings]

\* the rows of the unit of trade t that meet the threshold, by position
UnitCandidates(t) ==
    {k \in Passed : SameUnit(sim_rows[k], TradeUnit(t)) /\ MeetsThreshold(sim_rows[k])}

\* C11: every admitted trade has an edge (less the execution-delay penalty
\* outside the gross scenario) of at least the threshold, no contest and
\* innings holds two trades, and the trade of a unit is the first row of the
\* unit, in sorted order, that meets the threshold
C11_FirstQualifyingRowTraded ==
    /\ \A i \in 1..Len(trades) :
          effective_edge(trades[i].edge, scenario) >= threshold
    /\ \A i, j \in 1..Len(trades) :
          SameUnit(TradeUnit(trades[i]), TradeUnit(trades[j])) => i = j
    /\ \A i \in 1..Len(trades) :
          LET first == CHOOSE k \in UnitCandidates(trades[i]) :
                            \A l \in UnitCandidates(trades[i]) : k <= l
          IN  /\ UnitCandidates(trades[i]) # {}
              /\ sim_rows[first].over_number = trades[i].over
              /\ sim_rows[first].edge = trades[i].edge

\* C12: when the run is over, every contest and innings with a row that
\* passes the threshold test holds a trade, also when the other innings of
\* the contest was traded before
C12_EachInningsTraded ==
    sim_pc = "done" =>
        \A k \in 1..Len(sim_rows) :
            ~BelowThreshold(sim_rows[k].edge, threshold, scenario) =>
                \E i \in 1..Len(trades) : SameUnit(sim_rows[k], TradeUnit(trades[i]))

\* the bankroll after the first k trades, recomputed from their PnL
BankrollAfter(k) == SumPnl(SubSeq(trades, 1, k))

MaxOf(S) == CHOOSE x \in S : \A y \in S : y <= x

RunningPeak(k) == MaxOf({BankrollAfter(j) : j \in 0..k})

DrawdownAt(k) == RunningPeak(k) - BankrollAfter(k)

\* C13: after every trade max_drawdown is the largest running peak minus
\* bankroll over the trades so far, the bankroll being the cumulative PnL
\* from 0; it is never negative and never decreases
C13_MaxDrawdownIsLargestDrop ==
    /\ [](/\ bankroll_history =
                [k \in 1..(Len(trades) + 1) |-> BankrollAfter(k - 1)]
          /\ max_drawdown = MaxOf({DrawdownAt(k) : k \in 0..Len(trades)})
          /\ max_drawdown >= 0)
    /\ [][max_drawdown' >= max_drawdown]_vars

\* three trades or more, and the bankroll has recovered from its worst drop
C13_Witness ==
    /\ Len(trades) >= 3
    /\ DrawdownAt(Len(trades)) > 0
    /\ DrawdownAt(Len(trades)) < max_drawdown

PnlStream == [i \in 1..Len(trades) |-> trades[i].pnl]

ExampleStream == <<Stake, Stake, 0 - Stake, 0 - Stake, 0 - Stake, Stake>>

\* C14 as stated: the PnL stream [+1, +1, -1, -1, -1, +1] reports a
\* max_drawdown of 2
C14_ExampleDrawdownTwo ==
    (sim_pc = "done" /\ PnlStream = ExampleStream) =>
        sim_result[1].max_drawdown = 2 * 100

\* C14 amended: the PnL stream [+1, +1, -1, -1, -1, +1] has the bankroll
\* 1, 2, 1, 0, -1, 0 under a peak of 2 and reports a max_drawdown of 3
C14_ExampleDrawdownThree ==
    (sim_pc = "done" /\ PnlStream = ExampleStream) =>
        /\ max_drawdown = 3 * Stake
        /\ sim_result[1].max_drawdown = 3 * 100

C14_Witness == sim_pc = "done" /\ PnlStream = ExampleStream

ClaimedTicks ==
    IF scenario = "realistic" THEN 1 ELSE IF scenario = "worst_case" THEN 2 ELSE 0

\* the commission rate of the scenario, per mille: 5%, or 1.5 times that
ClaimedRate ==
    IF scenario = "realistic" THEN 50 ELSE IF scenario = "worst_case" THEN 75 ELSE 0

\* PnL of a trade at the given effective odds: the proceeds of a win less
\* commission, the whole stake on a loss
ClaimedPnl(t, odds) ==
    IF t.won THEN (odds - 100) * (RateScale - ClaimedRate) ELSE 0 - Stake

\* C15 as stated: the effective odds are the raw odds less no, one or two
\* ticks; a win earns (effective_odds - 1) less commission on the proceeds
\* and a loss costs exactly 1 in every scenario
C15_PnlAtSlippedOdds ==
    \A i \in 1..Len(trades) :
        /\ trades[i].effective_odds = trades[i].odds - ClaimedTicks * TICK_SIZE
        /\ trades[i].pnl = ClaimedPnl(trades[i], trades[i].effective_odds)
        /\ ~trades[i].won => trades[i].commission = 0

\* C15 amended: as stated, except that the slipped odds are never taken
\* below 1.01
C15_PnlAtFlooredOdds ==
    \A i \in 1..Len(trades) :
        /\ trades[i].effective_odds =
              IF ClaimedTicks = 0 THEN trades[i].odds
              ELSE MaxOf({101, trades[i].odds - ClaimedTicks * TICK_SIZE})
        /\ trades[i].pnl = ClaimedPnl(trades[i], trades[i].effective_odds)
        /\ ~trades[i].won => trades[i].commission = 0

\* a commission-paying win at floored odds, an ordinary one and a loss
C15_Witness ==
    /\ scenario = "worst_case"
    /\ \E i, j, k \in 1..Len(trades) :
          /\ trades[i].won /\ trades[i].effective_odds = 101
          /\ trades[i].commission > 0
          /\ trades[j].won /\ trades[j].effective_odds = trades[j].odds - 4
          /\ ~trades[k].won /\ trades[k].pnl = 0 - Stake

RECURSIVE SumOdds(_)
SumOdds(ts) == IF ts = <<>> THEN 0 ELSE ts[1].odds + SumOdds(Tail(ts))

\* C16: with at least one trade, total_staked is the trade count and
\* roi_pct is 100 * profit / trade count in the two decimals reported: less
\* than 0.01 from the quotient, and its rounding wherever the profit has no
\* more than four decimals; under gross costs, threshold 0 and only wins
\* that is (mean odds - 1) * 100
C16_RoiFromProfit ==
    (sim_pc = "done" /\ trades # <<>>) =>
        LET r == sim_result[1]
            n == Len(trades)
        IN  /\ r.total_trades = n
            /\ r.total_staked = n
            /\ r.roi_pct * 10 * n - SumPnl(trades) < 10 * n
            /\ SumPnl(trades) - r.roi_pct * 10 * n < 10 * n
            /\ scenario # "worst_case" =>
                  r.roi_pct \in RoundChoices(SumPnl(trades), 10 * n)
            /\ (scenario = "gross" /\ threshold = 0
                    /\ \A i \in 1..n : trades[i].won) =>
                  r.roi_pct \in RoundChoices((SumOdds(trades) - 100 * n) * 100, n)

\* three winning trades at unlike odds under gross costs and threshold 0
C16_Witness ==
    /\ sim_pc = "done"
    /\ scenario = "gross" /\ threshold = 0
    /\ Len(trades) = 3
    /\ \A i \in 1..3 : trades[i].won
    /\ \E i, j \in 1..3 : trades[i].odds # trades[j].odds

-----------------------------------------------------------------------------
(* scripts/normalize_odds.py, merge_odds_metadata.py, edge_simulation.py:   *)
(* the pre-match programs, run one after the other over the files the       *)
(* earlier one wrote. Odds are in hundredths, probabilities and edges in    *)
(* units of 1e-6, money in units of 1e-5 of the stake.                      *)

MaxFixtures == 2

\* a contest has no quote, or one at 1.90/1.90, 3.00/1.40, 1.00/2.00 or
\* 0/2.00
QuoteKinds == {"none", "level", "outsider", "unit", "zero"}

QuoteOdds(kind) ==
    CASE kind = "level" -> <<190, 190>>
      [] kind = "outsider" -> <<300, 140>>
      [] kind = "unit" -> <<100, 200>>
      [] OTHER -> <<0, 200>>

\* winner, quote, and whether the rating history has the contest
FixtureChoices == {"A", "B", NoWinner} \X QuoteKinds \X BOOLEAN

MetadataRow(i, c) ==
    [match_id |-> i, date |-> ContestDate(i), team_1 |-> "A", team_2 |-> "B",
     winner |-> c[1]]

QuoteRow(i, c) ==
    [match_id |-> i, date |-> ContestDate(i), team_1 |-> "A", team_2 |-> "B",
     team_1_odds |-> QuoteOdds(c[2])[1], team_2_odds |-> QuoteOdds(c[2])[2]]

RECURSIVE QuoteRows(_, _)
QuoteRows(c, n) ==
    IF n = 0 THEN <<>>
    ELSE IF c[n][2] = "none" THEN QuoteRows(c, n - 1)
    ELSE Append(QuoteRows(c, n - 1), QuoteRow(n, c[n]))

\* load_model_probs: the expected win probabilities of the rating history
ModelProbs(c, n) ==
    [i \in {j \in 1..n : c[j][3]} |->
        [team_1 |-> "A", team_2 |-> "B", exp_win_1 |-> 600000,
         exp_win_2 |-> 400000]]

PreMatchThresholds == {30000, 100000}

\* round(a / b, 6) in units of 1e-6, by long division in two steps of three
\* decimals
Round6(a, b) ==
    LET r == a % b
        r1 == (r * 1000) % b
    IN  (a \div b) * ProbScale + ((r * 1000) \div b) * 1000
            + RoundDiv(r1 * 1000, b)

\* normalize_odds: the output row of one quote record
NormalizedRow(row) ==
    LET o1 == row.team_1_odds
        o2 == row.team_2_odds
    IN  [match_id |-> row.match_id, date |-> row.date, team_1 |-> row.team_1,
         team_2 |-> row.team_2, team_1_odds |-> o1, team_2_odds |-> o2,
         team_1_implied_prob |-> Round6(100, o1),
         team_2_implied_prob |-> Round6(100, o2),
         market_overround |-> Round6(100 * (o1 + o2), o1 * o2),
         team_1_market_prob |-> Round6(o2, o1 + o2),
         team_2_market_prob |-> Round6(o1, o1 + o2)]

\* 1.0 / t1_odds or 1.0 / t2_odds raises ZeroDivisionError
DivisionByZero(row) == row.team_1_odds = 0 \/ row.team_2_odds = 0

\* odds_lookup = {r["match_id"]: r for r in odds_rows}: the last row of a
\* contest stays
OddsLookup(rows, mid) ==
    LET at == {k \in 1..Len(rows) : rows[k].match_id = mid}
    IN  IF at = {} THEN Blank
        ELSE Val(rows[CHOOSE k \in at : \A l \in at : l <= k])

\* merge_odds_metadata: a contest row with the odds fields filled in or ""
MergedRow(row, odds) ==
    [match_id |-> row.match_id, date |-> row.date, team_1 |-> row.team_1,
     team_2 |-> row.team_2, winner |-> row.winner,
     team_1_odds |-> IF odds = Blank THEN Blank ELSE Val(odds[1].team_1_odds),
     team_2_odds |-> IF odds = Blank THEN Blank ELSE Val(odds[1].team_2_odds),
     team_1_implied_prob |->
        IF odds = Blank THEN Blank ELSE Val(odds[1].team_1_implied_prob),
     team_2_implied_prob |->
        IF odds = Blank THEN Blank ELSE Val(odds[1].team_2_implied_prob),
     market_overround |->
        IF odds = Blank THEN Blank ELSE Val(odds[1].market_overround),
     team_1_market_prob |->
        IF odds = Blank THEN Blank ELSE Val(odds[1].team_1_market_prob),
     team_2_market_prob |->
        IF odds = Blank THEN Blank ELSE Val(odds[1].team_2_market_prob)]

\* matches_with_odds: the rows whose team_1_market_prob is not ""
RECURSIVE WithOdds(_)
WithOdds(rows) ==
    IF rows = <<>> THEN <<>>
    ELSE IF rows[1].team_1_market_prob # Blank
         THEN <<rows[1]>> \o WithOdds(Tail(rows))
         ELSE WithOdds(Tail(rows))

\* exp_win - market in double precision: in one case of the quotes above the
\* difference falls short of the exact one, 0.6 - 0.5 = 0.09999999999999998
EdgeRoundsBelow == {<<600000, 500000, 100000>>}

\* the test `edge >= threshold` of edge_simulation.run_simulation
EdgeAtLeast(exp_win, market, thr) ==
    /\ exp_win - market >= thr
    /\ <<exp_win, market, thr>> \notin EdgeRoundsBelow

\* the first test of the loop, on the quote only
SkippedWithoutQuote(match, probs) == match.team_1_market_prob = Blank

\* `match["team_1_market_prob"] == "" or mid not in model_probs`
Skipped(match, probs) ==
    match.team_1_market_prob = Blank \/ match.match_id \notin DOMAIN probs

\* `not winner or winner not in (team_1, team_2)`
InvalidWinner(match) ==
    match.winner = NoWinner \/ match.winner \notin {match.team_1, match.team_2}

\* the side bet on and its odds, or none
BetChoice(match, mp, thr) ==
    LET t1_market == match.team_1_market_prob[1]
        t2_market == match.team_2_market_prob[1]
        t1_edge == mp.exp_win_1 - t1_market
        t2_edge == mp.exp_win_2 - t2_market
    IN  IF EdgeAtLeast(mp.exp_win_1, t1_market, thr) /\ t1_edge >= t2_edge
        THEN Val([bet_team |-> mp.team_1, bet_odds |-> match.team_1_odds[1]])
        ELSE IF EdgeAtLeast(mp.exp_win_2, t2_market, thr)
        THEN Val([bet_team |-> mp.team_2, bet_odds |-> match.team_2_odds[1]])
        ELSE Blank

BetOf(match, choice) ==
    LET won == choice.bet_team = match.winner
    IN  [match_id |-> match.match_id, bet_team |-> choice.bet_team,
         odds |-> choice.bet_odds, won |-> won,
         pnl |-> GrossPnl(choice.bet_odds, won)]

PreMatchInit ==
    /\ \E n \in 0..MaxFixtures :
         \E c \in [1..n -> FixtureChoices] :
            /\ metadata = [i \in 1..n |-> MetadataRow(i, c[i])]
            /\ raw_quotes = QuoteRows(c, n)
            /\ model_probs = ModelProbs(c, n)
    /\ pm_threshold \in PreMatchThresholds
    /\ pm_pc = "normalize"
    /\ pm_i = 1
    /\ output_rows = <<>>
    /\ odds_file = Blank
    /\ merged_file = Blank
    /\ pm_matches = <<>>
    /\ bets = <<>>
    /\ pm_bankroll_history = <<0>>
    /\ pm_peak = 0
    /\ pm_max_drawdown = 0
    /\ pm_result = Blank
    /\ EloIdle
    /\ ModelIdle
    /\ BacktestIdle
    /\ PerOverIdle
    /\ FetchIdle
    /\ CompareIdle
    /\ KeyIdle
    /\ SimIdle
    /\ TimestampIdle

\* normalize_odds: one pass of the for loop
NormalizeRow ==
    /\ pm_pc = "normalize"
    /\ pm_i <= Len(raw_quotes)
    /\ IF DivisionByZero(raw_quotes[pm_i])
       THEN /\ pm_pc' = "failed"
            /\ UNCHANGED <<output_rows, pm_i>>
       ELSE /\ output_rows' = Append(output_rows, NormalizedRow(raw_quotes[pm_i]))
            /\ pm_i' = pm_i + 1
            /\ UNCHANGED pm_pc
    /\ UNCHANGED <<raw_quotes, odds_file, metadata, model_probs, merged_file,
                   pm_matches, pm_threshold, bets, pm_bankroll_history, pm_peak,
                   pm_max_drawdown, pm_result>>
    /\ UNCHANGED <<eloVars, modelVars, backtestVars, simVars, timestampVars, keyVars, compareVars, fetchVars, perOverVars>>

\* normalize_odds: the rows are written after the loop
WriteNormalized ==
    /\ pm_pc = "normalize"
    /\ pm_i > Len(raw_quotes)
    /\ odds_file' = Val(output_rows)
    /\ pm_pc' = "merge"
    /\ UNCHANGED <<raw_quotes, output_rows, metadata, model_probs, merged_file,
                   pm_i, pm_matches, pm_threshold, bets, pm_bankroll_history,
                   pm_peak, pm_max_drawdown, pm_result>>
    /\ UNCHANGED <<eloVars, modelVars, backtestVars, simVars, timestampVars, keyVars, compareVars, fetchVars, perOverVars>>

MergeOddsMetadata ==
    /\ pm_pc = "merge"
    /\ merged_file' =
          Val([i \in 1..Len(metadata) |->
                MergedRow(metadata[i],
                          OddsLookup(odds_file[1], metadata[i].match_id))])
    /\ pm_pc' = "edge"
    /\ UNCHANGED <<raw_quotes, output_rows, odds_file, metadata, model_probs,
                   pm_i, pm_matches, pm_threshold, bets, pm_bankroll_history,
                   pm_peak, pm_max_drawdown, pm_result>>
    /\ UNCHANGED <<eloVars, modelVars, backtestVars, simVars, timestampVars, keyVars, compareVars, fetchVars, perOverVars>>

\* edge_simulation: read the merged file, keep the contests with odds, sort
LoadMatchesWithOdds ==
    /\ pm_pc = "edge"
    /\ pm_matches' = SortByDate(WithOdds(merged_file[1]))
    /\ pm_pc' = "loop"
    /\ pm_i' = 1
    /\ UNCHANGED <<raw_quotes, output_rows, odds_file, metadata, model_probs,
                   merged_file, pm_threshold, bets, pm_bankroll_history,
                   pm_peak, pm_max_drawdown, pm_result>>
    /\ UNCHANGED <<eloVars, modelVars, backtestVars, simVars, timestampVars, keyVars, compareVars, fetchVars, perOverVars>>

\* edge_simulation.run_simulation: one pass of the for loop
PlaceBet ==
    /\ pm_pc = "loop"
    /\ pm_i <= Len(pm_matches)
    /\ LET match == pm_matches[pm_i]
           known == match.match_id \in DOMAIN model_probs
           choice == BetChoice(match, model_probs[match.match_id], pm_threshold)
       IN  IF Skipped(match, model_probs)
           THEN /\ pm_i' = pm_i + 1
                /\ UNCHANGED <<pm_pc, bets, pm_bankroll_history, pm_peak,
                               pm_max_drawdown>>
           ELSE IF match.team_1_market_prob = Blank
           THEN \* float("") raises ValueError
                /\ pm_pc' = "failed"
                /\ UNCHANGED <<pm_i, bets, pm_bankroll_history, pm_peak,
                               pm_max_drawdown>>
           ELSE IF InvalidWinner(match)
           THEN /\ pm_i' = pm_i + 1
                /\ UNCHANGED <<pm_pc, bets, pm_bankroll_history, pm_peak,
                               pm_max_drawdown>>
           ELSE IF ~known
           THEN \* model_probs[mid] raises KeyError
                /\ pm_pc' = "failed"
                /\ UNCHANGED <<pm_i, bets, pm_bankroll_history, pm_peak,
                               pm_max_drawdown>>
           ELSE IF choice = Blank
           THEN /\ pm_i' = pm_i + 1
                /\ UNCHANGED <<pm_pc, bets, pm_bankroll_history, pm_peak,
                               pm_max_drawdown>>
           ELSE LET bet == BetOf(match, choice[1])
                    cumulative ==
                        pm_bankroll_history[Len(pm_bankroll_history)] + bet.pnl
                IN  /\ bets' = Append(bets, bet)
                    /\ pm_bankroll_history' =
                          Append(pm_bankroll_history, cumulative)
                    /\ pm_peak' = NextPeak(pm_peak, cumulative)
                    /\ pm_max_drawdown' =
                          NextDrawdown(pm_max_drawdown,
                                       NextPeak(pm_peak, cumulative), cumulative)
                    /\ pm_i' = pm_i + 1
                    /\ UNCHANGED pm_pc
    /\ UNCHANGED <<raw_quotes, output_rows, odds_file, metadata, model_probs,
                   merged_file, pm_matches, pm_threshold, pm_result>>
    /\ UNCHANGED <<eloVars, modelVars, backtestVars, simVars, timestampVars, keyVars, compareVars, fetchVars, perOverVars>>

\* edge_simulation.run_simulation: the result record built after the loop
SummariseBets ==
    /\ pm_pc = "loop"
    /\ pm_i > Len(pm_matches)
    /\ IF bets = <<>>
       THEN pm_result' =
               Val([threshold |-> pm_threshold, total_bets |-> 0, wins |-> 0,
                    losses |-> 0, win_rate |-> 0, total_staked |-> 0,
                    total_return |-> 0, profit |-> 0, roi_pct |-> 0,
                    max_drawdown |-> 0, max_drawdown_pct |-> 0])
       ELSE LET total_bets == Len(bets)
                wins == Wins(bets)
            IN  \E total_return \in
                    RoundChoices(SumPnl(bets) + total_bets * Stake, Stake \div 100) :
                \E roi \in RoundChoices((total_return - total_bets * 100) * 100,
                                        total_bets) :
                \E win_rate \in RoundChoices(wins * 10000, total_bets) :
                \E max_dd \in RoundChoices(pm_max_drawdown, Stake \div 100) :
                \E max_dd_pct \in RoundChoices(pm_max_drawdown, 10 * total_bets) :
                    pm_result' =
                        Val([threshold |-> pm_threshold, total_bets |-> total_bets,
                             wins |-> wins, losses |-> total_bets - wins,
                             win_rate |-> win_rate, total_staked |-> total_bets,
                             total_return |-> total_return,
                             profit |-> total_return - total_bets * 100,
                             roi_pct |-> roi, max_drawdown |-> max_dd,
                             max_drawdown_pct |-> max_dd_pct])
    /\ pm_pc' = "done"
    /\ UNCHANGED <<raw_quotes, output_rows, odds_file, metadata, model_probs,
                   merged_file, pm_i, pm_matches, pm_threshold, bets,
                   pm_bankroll_history, pm_peak, pm_max_drawdown>>
    /\ UNCHANGED <<eloVars, modelVars, backtestVars, simVars, timestampVars, keyVars, compareVars, fetchVars, perOverVars>>

PreMatchNext ==
    \/ NormalizeRow
    \/ WriteNormalized
    \/ MergeOddsMetadata
    \/ LoadMatchesWithOdds
    \/ PlaceBet
    \/ SummariseBets

PreMatchSpec == PreMatchInit /\ [][PreMatchNext]_vars

-----------------------------------------------------------------------------
(* Claims about the pre-match programs *)

HasQuote(mid) == \E k \in 1..Len(raw_quotes) : raw_quotes[k].match_id = mid

NoBetOn(mid) == \A b \in 1..Len(bets) : bets[b].match_id # mid

\* the contest lacks a quote or a model probability
Unpriced(mid) == ~HasQuote(mid) \/ mid \notin DOMAIN model_probs

\* C17: a contest without a market quote or without a model probability is
\* no trade and no error: the merge leaves its odds fields empty, the loop
\* passes it with the bet list, the bankroll history, the peak and
\* max_drawdown as they were and goes on to the next contest, and the
\* contests after it are still bet on
C17_MissingQuoteIsNoTrade ==
    /\ [](\A i \in 1..Len(metadata) :
            Unpriced(metadata[i].match_id) =>
                /\ NoBetOn(metadata[i].match_id)
                /\ (merged_file # Blank /\ ~HasQuote(metadata[i].match_id)) =>
                      merged_file[1][i].team_1_market_prob = Blank)
    /\ [][(pm_pc = "loop" /\ pm_i <= Len(pm_matches)
              /\ Unpriced(pm_matches[pm_i].match_id)) =>
            /\ bets' = bets
            /\ pm_bankroll_history' = pm_bankroll_history
            /\ pm_peak' = pm_peak
            /\ pm_max_drawdown' = pm_max_drawdown
            /\ pm_pc' = "loop"
            /\ pm_i' = pm_i + 1]_vars
    /\ [](pm_pc = "done" =>
            \A i \in 1..Len(merged_file[1]) :
                LET match == merged_file[1][i]
                IN  (/\ ~Unpriced(match.match_id)
                     /\ ~InvalidWinner(match)
                     /\ BetChoice(match, model_probs[match.match_id],
                                  pm_threshold) # Blank)
                        => ~NoBetOn(match.match_id))

\* the contest of the earlier date has no quote and the run ended with a
\* bet on the other one
C17_Witness ==
    /\ pm_pc = "done"
    /\ Len(metadata) = 2
    /\ ~HasQuote(2)
    /\ ~NoBetOn(1)

BadOdds(row) == row.team_1_odds <= 100 \/ row.team_2_odds <= 100

\* C18: a quote record with odds of 1.0 or less on a side is rejected: it
\* gives no normalized row and no bet, and the records after it are still
\* processed, the run never stops on it
C18_InvalidOddsRejected ==
    /\ pm_pc # "failed"
    /\ \A k \in 1..Len(raw_quotes) :
          BadOdds(raw_quotes[k]) =>
              /\ \A o \in 1..Len(output_rows) :
                    output_rows[o].match_id # raw_quotes[k].match_id
              /\ NoBetOn(raw_quotes[k].match_id)

-----------------------------------------------------------------------------
(* scripts/build_timestamp_audit.py: the timestamp audit. A timestamp is   *)
(* <<date, minute of the day>>, or Blank when the text is not of the form  *)
(* %Y-%m-%dT%H:%M:%SZ; dates are day numbers. The price columns of a row   *)
(* are copied or adjusted by constants and have no part in the risk class. *)

MINUTES_PER_OVER == 4
INNINGS_BREAK_MINUTES == 20

MaxAuditRows == 3

\* match_metadata.csv: contests 1 and 2 are played on one date, contest 3
\* alone on the next
AuditMetadata ==
    <<[match_id |-> 1, date |-> 1], [match_id |-> 2, date |-> 1],
      [match_id |-> 3, date |-> 2]>>

AuditDate(mid) == IF mid = 3 THEN 2 ELSE 1

\* a row of high_confidence_inplay_odds.csv
AuditRow(mid, inn, over, minute) ==
    [match_id |-> mid, date |-> AuditDate(mid), innings_number |-> inn,
     over_number |-> over,
     fetch_timestamp |-> IF minute = 0 THEN Blank ELSE <<AuditDate(mid), minute>>]

\* fetch minutes around 14:20 and 14:24, the ends of overs 4 and 5 of the
\* first innings of a 14:00 start; 0 stands for a malformed timestamp
FetchMinutes == {0, 852, 861, 866}

AuditRowChoices ==
    {AuditRow(2, 1, over, m) : over \in {4, 5}, m \in FetchMinutes}
        \cup {AuditRow(1, 1, 4, m) : m \in {0, 852}}
        \cup {AuditRow(2, 2, 4, m) : m \in {852, 866}}
        \cup {AuditRow(3, 2, 4, m) : m \in {852, 866}}

AuditFiles ==
    UNION {[1..n -> AuditRowChoices] : n \in 0..MaxAuditRows}

\* metadata_by_date.get(date_str, [])
DayMatches(meta, date_str) ==
    {meta[k].match_id : k \in {j \in 1..Len(meta) : meta[j].date = date_str}}

determine_match_slot(match_id, date_str, meta) ==
    LET day_matches == DayMatches(meta, date_str)
    IN  IF Cardinality(day_matches) <= 1 THEN 14
        ELSE IF \A m \in day_matches : match_id <= m THEN 10
        ELSE 14

estimate_over_end_time(date_str, innings_number, over_number, start_hour) ==
    LET minutes_offset ==
            IF innings_number = 1
            THEN (over_number + 1) * MINUTES_PER_OVER
            ELSE 20 * MINUTES_PER_OVER + INNINGS_BREAK_MINUTES
                     + (over_number + 1) * MINUTES_PER_OVER
    IN  <<date_str, start_hour * 60 + minutes_offset>>

\* datetime.strptime raises ValueError
ParseRaises(ts_str) == ts_str = Blank \/ ts_str[2] \div 60 > 23

\* the difference taken from the fetch to the over's end instead
DeltaReversed(fetch_ts, over_end) ==
    IF ParseRaises(fetch_ts) \/ ParseRaises(over_end) THEN 0
    ELSE (over_end[1] - fetch_ts[1]) * 24 * 60 + over_end[2] - fetch_ts[2]

\* (fetch_dt - over_end_dt).total_seconds() / 60.0, and 0.0 on an exception
DeltaMinutes(fetch_ts, over_end) ==
    IF ParseRaises(fetch_ts) \/ ParseRaises(over_end) THEN 0
    ELSE (fetch_ts[1] - over_end[1]) * 24 * 60 + fetch_ts[2] - over_end[2]

RiskOrder == <<"none", "low", "medium", "high", "critical">>
RiskIndex(risk) == CHOOSE i \in 1..Len(RiskOrder) : RiskOrder[i] = risk

DelayRisk(delta_minutes) ==
    IF delta_minutes > 5 THEN "critical"
    ELSE IF delta_minutes > 1 THEN "high"
    ELSE IF delta_minutes > -2 THEN "medium"
    ELSE IF delta_minutes > -10 THEN "low"
    ELSE "none"

\* max(leakage_risk, "medium", key=[...].index) when single_ts
LeakageRisk(delta_minutes, single_ts) ==
    LET risk == DelayRisk(delta_minutes)
    IN  IF single_ts /\ RiskIndex(risk) < RiskIndex("medium") THEN "medium"
        ELSE risk

\* mi_timestamps[(r["match_id"], r["innings_number"])].add(r["fetch_timestamp"])
GroupKey(row) == <<row.match_id, row.innings_number>>
TimestampsByGroup(rows) ==
    [key \in {GroupKey(rows[k]) : k \in 1..Len(rows)} |->
        {rows[k].fetch_timestamp : k \in {j \in 1..Len(rows) : GroupKey(rows[j]) = key}}]

AuditedRow(row, meta, stamps) ==
    LET start_hour == determine_match_slot(row.match_id, row.date, meta)
        over_end == estimate_over_end_time(row.date, row.innings_number,
                                           row.over_number, start_hour)
        single_ts == Cardinality(stamps[GroupKey(row)]) = 1
        delta_minutes == DeltaMinutes(row.fetch_timestamp, over_end)
    IN  [match_id |-> row.match_id, date |-> row.date,
         innings_number |-> row.innings_number, over_number |-> row.over_number,
         fetch_timestamp |-> row.fetch_timestamp,
         estimated_over_end_time |-> over_end,
         timestamp_vs_over_delta_minutes |-> delta_minutes,
         leakage_risk |-> LeakageRisk(delta_minutes, single_ts),
         single_ts_per_innings |-> single_ts]

TimestampInit ==
    /\ EloIdle
    /\ ModelIdle
    /\ BacktestIdle
    /\ PerOverIdle
    /\ FetchIdle
    /\ CompareIdle
    /\ KeyIdle
    /\ SimIdle
    /\ PreMatchIdle
    /\ ta_rows \in AuditFiles
    /\ ta_metadata = AuditMetadata
    /\ mi_timestamps = EmptyDict
    /\ ta_pc = "read"
    /\ ta_i = 0
    /\ ta_audit_rows = <<>>
    /\ leakage_counts = NoLeakage
    /\ ta_file = Blank

\* the files are read and the fetch timestamps of every contest and innings
\* collected
CollectTimestamps ==
    /\ ta_pc = "read"
    /\ mi_timestamps' = TimestampsByGroup(ta_rows)
    /\ ta_i' = 1
    /\ ta_pc' = "loop"
    /\ UNCHANGED <<ta_rows, ta_metadata, ta_audit_rows, leakage_counts, ta_file>>
    /\ UNCHANGED <<eloVars, modelVars, backtestVars, simVars, preVars, keyVars, compareVars, fetchVars, perOverVars>>

\* one pass of `for row in rows`
AuditOneRow ==
    /\ ta_pc = "loop"
    /\ ta_i <= Len(ta_rows)
    /\ LET audited == AuditedRow(ta_rows[ta_i], ta_metadata, mi_timestamps)
       IN  /\ ta_audit_rows' = Append(ta_audit_rows, audited)
           /\ leakage_counts' =
                 [leakage_counts EXCEPT ![audited.leakage_risk] = @ + 1]
    /\ ta_i' = ta_i + 1
    /\ UNCHANGED <<ta_rows, ta_metadata, mi_timestamps, ta_pc, ta_file>>
    /\ UNCHANGED <<eloVars, modelVars, backtestVars, simVars, preVars, keyVars, compareVars, fetchVars, perOverVars>>

\* the audit is written; the summary then divides by len(audit_rows) and
\* takes statistics.stdev of the deltas, which needs two of them
WriteAudit ==
    /\ ta_pc = "loop"
    /\ ta_i > Len(ta_rows)
    /\ ta_file' = Val(ta_audit_rows)
    /\ ta_pc' = IF Len(ta_audit_rows) < 2 THEN "failed" ELSE "done"
    /\ UNCHANGED <<ta_rows, ta_metadata, mi_timestamps, ta_i, ta_audit_rows,
                   leakage_counts>>
    /\ UNCHANGED <<eloVars, modelVars, backtestVars, simVars, preVars, keyVars, compareVars, fetchVars, perOverVars>>

TimestampNext == CollectTimestamps \/ AuditOneRow \/ WriteAudit

TimestampSpec == TimestampInit /\ [][TimestampNext]_vars

-----------------------------------------------------------------------------
(* Properties of the timestamp audit *)

Audited == {ta_audit_rows[k] : k \in 1..Len(ta_audit_rows)}
WellStamped == {r \in Audited : r.fetch_timestamp # Blank}

\* minutes from the estimated end of the row's over to the fetch of its quote
Delay(r) ==
    (r.fetch_timestamp[1] - r.estimated_over_end_time[1]) * 24 * 60
        + r.fetch_timestamp[2] - r.estimated_over_end_time[2]

RiskRank(r) == RiskIndex(r.leakage_risk)

\* all rows of the input that belong to r's contest and innings carry one
\* fetch timestamp
OneStampInGroup(r) ==
    \A j, k \in 1..Len(ta_rows) :
        (/\ ta_rows[j].match_id = r.match_id
         /\ ta_rows[j].innings_number = r.innings_number
         /\ ta_rows[k].match_id = r.match_id
         /\ ta_rows[k].innings_number = r.innings_number) =>
            ta_rows[j].fetch_timestamp = ta_rows[k].fetch_timestamp

FlagsAreExact == \A r \in Audited : r.single_ts_per_innings = OneStampInGroup(r)

\* C20: the risk class of an audited row is a monotone function of the delay
\* of its fetch after the estimated end of its over, whatever the row's flag:
\* of two rows the one fetched no later after its over's end has no higher
\* class; and a row is flagged exactly when its contest and innings carry
\* one fetch timestamp
C20_RiskByDelayAlone ==
    /\ \A a, b \in WellStamped :
          Delay(a) <= Delay(b) => RiskRank(a) <= RiskRank(b)
    /\ FlagsAreExact

\* C20 as the code has it: the class is determined by the delay and the flag.
\* A flagged row has at least medium; of two rows with the same flag value
\* the one fetched no later after its over's end has no higher class; and a
\* row is flagged exactly when its contest and innings carry one timestamp
C20_RiskByDelayAndFlag ==
    /\ \A a, b \in WellStamped :
          (a.single_ts_per_innings = b.single_ts_per_innings
              /\ Delay(a) <= Delay(b)) => RiskRank(a) <= RiskRank(b)
    /\ \A r \in Audited :
          r.single_ts_per_innings => RiskRank(r) >= RiskIndex("medium")
    /\ FlagsAreExact

\* a finished audit with a flagged row fetched long before its over's end and
\* classed medium, and two rows of an unflagged innings of which the later
\* fetched has the higher class
C20_Witness ==
    /\ ta_pc = "done"
    /\ \E r \in WellStamped :
          /\ r.single_ts_per_innings
          /\ Delay(r) <= -10
          /\ r.leakage_risk = "medium"
    /\ \E a, b \in WellStamped :
          /\ ~a.single_ts_per_innings
          /\ ~b.single_ts_per_innings
          /\ a.match_id = b.match_id
          /\ a.innings_number = b.innings_number
          /\ Delay(a) < Delay(b)
          /\ RiskRank(a) < RiskRank(b)

-----------------------------------------------------------------------------
(* The worked replay of three contests and the win/loss counters *)

\* the contests replayed so far, in replay order, as <<team_1, team_2, winner>>
Replayed ==
    [i \in 1..Len(history_rows) |->
        <<history_rows[i].team_1, history_rows[i].team_2, history_rows[i].winner>>]

\* the file, once loaded, is A beats B, B beats A, A beats B
ThreeContests ==
    /\ elo_pc # "load"
    /\ Len(matches) = 3
    /\ \A i \in 1..3 : matches[i].team_1 = "A" /\ matches[i].team_2 = "B"
    /\ matches[1].winner = "A"
    /\ matches[2].winner = "B"
    /\ matches[3].winner = "A"

\* C22: in the replay of A beats B, B beats A, A beats B the first contest
\* has expected score 0.5 for A and leaves A at 1510 and B at 1490, and the
\* second contest starts from exactly 1510 and 1490
C22_ThreeContestReplay ==
    ThreeContests =>
        /\ Len(history_rows) >= 1 =>
              /\ history_rows[1].pre_match_rating_team_1 = Cents(1500)
              /\ history_rows[1].pre_match_rating_team_2 = Cents(1500)
              /\ history_rows[1].expected_win_probability_team_1 = 5000
              /\ history_rows[1].post_match_rating_team_1 = Cents(1510)
              /\ history_rows[1].post_match_rating_team_2 = Cents(1490)
        /\ Len(history_rows) >= 2 =>
              /\ history_rows[2].pre_match_rating_team_1 = Cents(1510)
              /\ history_rows[2].pre_match_rating_team_2 = Cents(1490)

\* the three contests have all been replayed
C22_Witness ==
    /\ ThreeContests
    /\ elo_pc = "done"
    /\ Len(history_rows) = 3

\* the contests replayed so far that t took part in, and those it won
ContestsOf(t) ==
    {i \in 1..Len(history_rows) : t \in {Replayed[i][1], Replayed[i][2]}}
ContestsWonBy(t) == {i \in ContestsOf(t) : Replayed[i][3] = t}

\* C23: at every point of the replay each team's wins and losses add up to
\* its matches_played, and its wins are the replayed contests whose recorded
\* winner it is
C23_WinsAreRecordedWins ==
    \A t \in DOMAIN team_stats :
        /\ team_stats[t].wins + team_stats[t].losses = team_stats[t].matches_played
        /\ team_stats[t].wins = Cardinality(ContestsWonBy(t))

-----------------------------------------------------------------------------
(* The context key of one snapshot row, as build_statistical_bucket_model   *)
(* and build_rolling_backtest compute it                                    *)

MaxOver == 20
MaxWickets == 10

\* rating differences at and around the cut points, in hundredths, and the
\* empty field
KeyDiffs ==
    {Val(Cents(d)) : d \in {-76, -75, -26, -25, 0, 25, 26, 75, 76}}
        \cup {Val(2550), Val(-2550), Blank}

\* target, balls_remaining and required_run_rate of a row: all empty in the
\* first innings, each of them empty or not in the second
ChaseFields ==
    {<<1, Blank, Blank, Blank>>}
        \cup ({2} \X {Blank, Val(161)} \X {Blank, Val(108)} \X {Blank, Val(806)})

KeyRow(over, wickets, diff, chase) ==
    [innings_number |-> chase[1], over_number |-> over, wickets_so_far |-> wickets,
     runs_so_far |-> 8 * over, target |-> chase[2], balls_remaining |-> chase[3],
     required_run_rate |-> chase[4], elo_rating_difference |-> diff]

KeyRows ==
    {KeyRow(over, wickets, diff, chase) :
        over \in 0..MaxOver, wickets \in 0..MaxWickets,
        diff \in KeyDiffs, chase \in ChaseFields}

\* float("") raises in run_pressure_bucket and leaves the caller without a key
KeyOrError(key) == IF key[3] = "ValueError" THEN <<"ValueError">> ELSE key

KeyInit ==
    /\ EloIdle
    /\ ModelIdle
    /\ BacktestIdle
    /\ PerOverIdle
    /\ FetchIdle
    /\ CompareIdle
    /\ SimIdle
    /\ PreMatchIdle
    /\ TimestampIdle
    /\ key_row \in KeyRows
    /\ model_key = Blank
    /\ backtest_key = Blank

\* build_statistical_bucket_model.get_statistical_win_probability(row)
ModelKey ==
    /\ model_key = Blank
    /\ model_key' = KeyOrError(get_statistical_win_probability(key_row))
    /\ UNCHANGED <<key_row, backtest_key>>
    /\ UNCHANGED <<eloVars, modelVars, backtestVars, simVars, preVars, timestampVars, compareVars, fetchVars, perOverVars>>

\* build_rolling_backtest.bucketize(row)
BacktestKey ==
    /\ backtest_key = Blank
    /\ backtest_key' = KeyOrError(bucketize(key_row))
    /\ UNCHANGED <<key_row, model_key>>
    /\ UNCHANGED <<eloVars, modelVars, backtestVars, simVars, preVars, timestampVars, compareVars, fetchVars, perOverVars>>

KeyNext == ModelKey \/ BacktestKey

KeySpec == KeyInit /\ [][KeyNext]_vars

-----------------------------------------------------------------------------
(* Properties of the context key *)

IsKey(key) == key # Blank /\ key # <<"ValueError">>
Keys == {key \in {model_key, backtest_key} : IsKey(key)}

OverBand(o) ==
    {band \in {"1-3", "4-6", "7-10", "11-15", "16-20"} :
        \/ band = "1-3" /\ o <= 3
        \/ band = "4-6" /\ 4 <= o /\ o <= 6
        \/ band = "7-10" /\ 7 <= o /\ o <= 10
        \/ band = "11-15" /\ 11 <= o /\ o <= 15
        \/ band = "16-20" /\ o >= 16}

WicketBand(w) ==
    {band \in {"0-1", "2-3", "4-6", "7+"} :
        \/ band = "0-1" /\ w <= 1
        \/ band = "2-3" /\ 2 <= w /\ w <= 3
        \/ band = "4-6" /\ 4 <= w /\ w <= 6
        \/ band = "7+" /\ w >= 7}

\* d in hundredths
DiffBand(d) ==
    {band \in {"strong_advantage", "moderate_advantage", "neutral",
               "moderate_disadvantage", "strong_disadvantage"} :
        \/ band = "strong_advantage" /\ d > 7500
        \/ band = "moderate_advantage" /\ 2500 < d /\ d <= 7500
        \/ band = "neutral" /\ -2500 <= d /\ d <= 2500
        \/ band = "moderate_disadvantage" /\ -7500 <= d /\ d < -2500
        \/ band = "strong_disadvantage" /\ d < -7500}

\* C21: every key computed for a row holds the one progress band of the
\* row's over number (<=3, 4-6, 7-10, 11-15, >=16), the one band of its
\* wicket count (<=1, 2-3, 4-6, >=7) and, when the row has a rating
\* difference d, the one band of d with cut points at +/-25 and +/-75
\* (neutral on -25 <= d <= 25, moderate up to and including +/-75)
C21_BandsCoverInputs ==
    \A key \in Keys :
        /\ OverBand(key_row.over_number) = {key[1]}
        /\ WicketBand(key_row.wickets_so_far) = {key[2]}
        /\ key_row.elo_rating_difference # Blank =>
              DiffBand(key_row.elo_rating_difference[1]) = {key[4]}

\* keys computed at cut points: over 16, seven wickets, and a difference of
\* exactly 25 (neutral) or exactly -75 (moderate disadvantage)
C21_Witness ==
    /\ IsKey(model_key)
    /\ key_row.over_number = 16
    /\ key_row.wickets_so_far = 7
    /\ key_row.elo_rating_difference \in {Val(2500), Val(-7500)}
    /\ model_key[4] \in {"neutral", "moderate_disadvantage"}

-----------------------------------------------------------------------------
(* scripts/build_corrected_simulation.py: main runs run_simulation over the *)
(* same sorted rows once per scenario and threshold                         *)

MaxCompared == 2

\* rows of two contests with edges around the threshold: a win at odds 2.00,
\* 1.02 or 1.00, or a loss
ComparedChoices ==
    {CandidateRow(mo[1], 1, mo[2], edge, ow[1], ow[2]) :
        mo \in {<<1, 4>>, <<1, 5>>, <<2, 4>>}, edge \in {4, 6, 7},
        ow \in {<<200, "A">>, <<102, "A">>, <<100, "A">>, <<200, "B">>}}

ComparedFiles == UNION {[1..n -> ComparedChoices] : n \in 0..MaxCompared}

\* for scenario in scenarios: for threshold in THRESHOLDS
RunOrder ==
    <<<<"gross", 0>>, <<"gross", 5>>, <<"realistic", 0>>, <<"realistic", 5>>,
      <<"worst_case", 0>>, <<"worst_case", 5>>>>

\* the trades of the for loop of run_simulation over rows, seen being
\* seen_matches
RECURSIVE TradesFrom(_, _, _, _)
TradesFrom(rows, thr, scen, seen) ==
    IF rows = <<>> THEN <<>>
    ELSE LET row == Head(rows)
         IN  IF BelowThreshold(row.edge, thr, scen) \/ UnitTaken(row, seen)
             THEN TradesFrom(Tail(rows), thr, scen, seen)
             ELSE <<TradeOf(row, scen)>>
                    \o TradesFrom(Tail(rows), thr, scen, seen \cup {row.match_id})

run_simulation(rows, thr, scen) == TradesFrom(rows, thr, scen, {})

CompareInit ==
    /\ EloIdle
    /\ ModelIdle
    /\ BacktestIdle
    /\ PerOverIdle
    /\ FetchIdle
    /\ SimIdle
    /\ PreMatchIdle
    /\ TimestampIdle
    /\ KeyIdle
    /\ cmp_rows \in ComparedFiles
    /\ cmp_pc = "load"
    /\ cmp_i = 0
    /\ cmp_results = <<>>

\* main: read the rows and sort them
CompareLoad ==
    /\ cmp_pc = "load"
    /\ cmp_rows' = SortByKey(cmp_rows)
    /\ cmp_pc' = "loop"
    /\ cmp_i' = 1
    /\ UNCHANGED cmp_results
    /\ UNCHANGED <<eloVars, modelVars, backtestVars, simVars, preVars, timestampVars, keyVars, fetchVars, perOverVars>>

\* result = run_simulation(source_rows, threshold, scenario); results.append
CompareRun ==
    /\ cmp_pc = "loop"
    /\ cmp_i <= Len(RunOrder)
    /\ LET scen == RunOrder[cmp_i][1]
           thr == RunOrder[cmp_i][2]
       IN  cmp_results' = Append(cmp_results,
              [scenario |-> scen, threshold |-> thr,
               trades |-> run_simulation(cmp_rows, thr, scen)])
    /\ cmp_i' = cmp_i + 1
    /\ UNCHANGED <<cmp_rows, cmp_pc>>
    /\ UNCHANGED <<eloVars, modelVars, backtestVars, simVars, preVars, timestampVars, keyVars, fetchVars, perOverVars>>

\* the results are written
CompareWrite ==
    /\ cmp_pc = "loop"
    /\ cmp_i > Len(RunOrder)
    /\ cmp_pc' = "done"
    /\ UNCHANGED <<cmp_rows, cmp_i, cmp_results>>
    /\ UNCHANGED <<eloVars, modelVars, backtestVars, simVars, preVars, timestampVars, keyVars, fetchVars, perOverVars>>

CompareNext == CompareLoad \/ CompareRun \/ CompareWrite

CompareSpec == CompareInit /\ [][CompareNext]_vars

-----------------------------------------------------------------------------
(* Properties of the runs of one row sequence *)

Runs == {cmp_results[k] : k \in 1..Len(cmp_results)}
TradedContests(run) == {run.trades[k].match_id : k \in 1..Len(run.trades)}

\* the rows a run admitted, in order, as <<match_id, innings, over, edge, odds>>
AdmittedRows(run) ==
    [k \in 1..Len(run.trades) |->
        <<run.trades[k].match_id, run.trades[k].innings, run.trades[k].over,
          run.trades[k].edge, run.trades[k].odds, run.trades[k].won>>]

\* C26: of two runs over the same rows under the same scenario, the one with
\* the higher threshold trades no contest the other does not trade, and no
\* more trades
C26_ThresholdMonotone ==
    \A a, b \in Runs :
        (a.scenario = b.scenario /\ a.threshold <= b.threshold) =>
            /\ TradedContests(b) \subseteq TradedContests(a)
            /\ Len(b.trades) <= Len(a.trades)

\* all runs made, and under one scenario the higher threshold trades fewer
\* contests than the lower, which trades two
C26_Witness ==
    /\ cmp_pc = "done"
    /\ \E a, b \in Runs :
          /\ a.scenario = b.scenario
          /\ a.threshold < b.threshold
          /\ Len(a.trades) = 2
          /\ Len(b.trades) = 1

\* C27: at one threshold the realistic and worst_case runs admit the same
\* rows in the same order, every contest traded under realistic is traded
\* under gross, and a row admitted by all three has
\* PnL(gross) >= PnL(realistic) >= PnL(worst_case)
C27_ScenarioOrdering ==
    \A g, r, w \in Runs :
        (/\ g.scenario = "gross" /\ r.scenario = "realistic"
         /\ w.scenario = "worst_case"
         /\ g.threshold = r.threshold /\ r.threshold = w.threshold) =>
            /\ AdmittedRows(r) = AdmittedRows(w)
            /\ TradedContests(r) \subseteq TradedContests(g)
            /\ \A i \in 1..Len(g.trades), j \in 1..Len(r.trades) :
                  AdmittedRows(g)[i] = AdmittedRows(r)[j] =>
                      /\ g.trades[i].pnl >= r.trades[j].pnl
                      /\ r.trades[j].pnl >= w.trades[j].pnl

-----------------------------------------------------------------------------
(* scripts/fetch_historical_odds.py: resumable fetch of one quote per match *)
(* date; a run can be stopped between any two of its steps, and the two     *)
(* files are each written in one step                                       *)

MaxListed == 2

\* dates as years; m["date"] >= "2020-01-01" keeps the dates from Since on
Since == 2020
FetchDates == {2019, 2020, 2021}

MatchLists ==
    UNION {{[i \in 1..n |-> [match_id |-> i, date |-> f[i]]] :
               f \in [1..n -> FetchDates]} : n \in 0..MaxListed}

\* matches_2020_plus, as the set of its rows
Matches2020Plus(listed) ==
    {listed[i] : i \in {j \in 1..Len(listed) : listed[j].date >= Since}}

\* all_dates, as a set
AllDates(listed) == {m.date : m \in Matches2020Plus(listed)}

\* every date is fetched again, whatever the cache holds
RemainingAll(listed, done) == SortedSeq(AllDates(listed))

\* remaining_dates = sorted(set(all_dates) - dates_done)
RemainingDates(listed, done) == SortedSeq(AllDates(listed) \ done)

\* every match of the date, stored or not
DateMatchesAll(listed, d, existing) ==
    SortedSeq({m.match_id : m \in {x \in Matches2020Plus(listed) : x.date = d}})

\* date_matches: the listed of the date that have no stored row, in the order
\* of the metadata (match ids ascend in every list of MatchLists)
DateMatches(listed, d, existing) ==
    SortedSeq({m.match_id : m \in {x \in Matches2020Plus(listed) :
                                      x.date = d /\ x.match_id \notin existing}})

\* the rows the loop over date_matches appends: one for each match that
\* find_pinnacle_odds finds among the events
RECURSIVE FoundRows(_, _, _)
FoundRows(ids, d, events) ==
    IF ids = <<>> THEN <<>>
    ELSE (IF Head(ids) \in events
          THEN <<[match_id |-> Head(ids), date |-> d]>> ELSE <<>>)
           \o FoundRows(Tail(ids), d, events)

RowIds(rows) == {rows[k].match_id : k \in 1..Len(rows)}

FetchInit ==
    /\ EloIdle
    /\ ModelIdle
    /\ BacktestIdle
    /\ PerOverIdle
    /\ SimIdle
    /\ PreMatchIdle
    /\ TimestampIdle
    /\ KeyIdle
    /\ CompareIdle
    /\ fh_matches \in MatchLists
    /\ fh_output = <<>>
    /\ fh_dates_file = {}
    /\ fh_pc = "idle"
    /\ fh_rows = <<>>
    /\ fh_existing_ids = {}
    /\ fh_dates_done = {}
    /\ fh_remaining = <<>>
    /\ fh_returned = <<>>
    /\ fh_requests = 0
    /\ fh_succeeded = {}
    /\ fh_failed = {}

\* a run begins: the files are loaded and remaining_dates is computed; with
\* nothing remaining the run returns the loaded rows
StartRun ==
    /\ fh_pc \in {"idle", "returned"}
    /\ fh_rows' = fh_output
    /\ fh_existing_ids' = RowIds(fh_output)
    /\ fh_dates_done' = fh_dates_file
    /\ fh_remaining' = RemainingDates(fh_matches, fh_dates_file)
    /\ fh_requests' = 0
    /\ IF fh_remaining' = <<>>
       THEN fh_pc' = "returned" /\ fh_returned' = fh_output
       ELSE fh_pc' = "loop" /\ UNCHANGED fh_returned
    /\ UNCHANGED <<fh_matches, fh_output, fh_dates_file, fh_succeeded, fh_failed>>
    /\ UNCHANGED <<eloVars, modelVars, backtestVars, simVars, preVars, timestampVars, keyVars, compareVars, perOverVars>>

\* the API call for the next date succeeds; events are the listed of the
\* date quoted by the bookmaker; the rows found are appended and the date is
\* added to dates_done
CallSucceeds(d) ==
    /\ fh_pc = "loop"
    /\ fh_remaining # <<>>
    /\ d = Head(fh_remaining)
    /\ \E events \in SUBSET {m.match_id : m \in {x \in Matches2020Plus(fh_matches) : x.date = d}} :
          LET found == FoundRows(DateMatches(fh_matches, d, fh_existing_ids), d, events)
          IN  /\ fh_rows' = fh_rows \o found
              /\ fh_existing_ids' = fh_existing_ids \cup RowIds(found)
    /\ fh_dates_done' = fh_dates_done \cup {d}
    /\ fh_requests' = fh_requests + 1
    /\ fh_succeeded' = fh_succeeded \cup {d}
    /\ fh_failed' = fh_failed \ {d}
    /\ fh_pc' = "save_rows"
    /\ UNCHANGED <<fh_matches, fh_output, fh_dates_file, fh_remaining, fh_returned>>
    /\ UNCHANGED <<eloVars, modelVars, backtestVars, simVars, preVars, timestampVars, keyVars, compareVars, perOverVars>>

\* the API call for the next date raises: api_errors += 1; continue
CallFails ==
    /\ fh_pc = "loop"
    /\ fh_remaining # <<>>
    /\ fh_remaining' = Tail(fh_remaining)
    /\ fh_requests' = fh_requests + 1
    /\ fh_failed' = fh_failed \cup {Head(fh_remaining)}
    /\ UNCHANGED <<fh_matches, fh_output, fh_dates_file, fh_pc, fh_rows,
                   fh_existing_ids, fh_dates_done, fh_returned, fh_succeeded>>
    /\ UNCHANGED <<eloVars, modelVars, backtestVars, simVars, preVars, timestampVars, keyVars, compareVars, perOverVars>>

\* save_rows(rows)
SaveRows ==
    /\ fh_pc = "save_rows"
    /\ fh_output' = fh_rows
    /\ fh_pc' = "save_dates"
    /\ UNCHANGED <<fh_matches, fh_dates_file, fh_rows, fh_existing_ids,
                   fh_dates_done, fh_remaining, fh_returned, fh_requests,
                   fh_succeeded, fh_failed>>
    /\ UNCHANGED <<eloVars, modelVars, backtestVars, simVars, preVars, timestampVars, keyVars, compareVars, perOverVars>>

\* save_dates_done(dates_done), and on to the next date
SaveDatesDone ==
    /\ fh_pc = "save_dates"
    /\ fh_dates_file' = fh_dates_done
    /\ fh_remaining' = Tail(fh_remaining)
    /\ fh_pc' = "loop"
    /\ UNCHANGED <<fh_matches, fh_output, fh_rows, fh_existing_ids,
                   fh_dates_done, fh_returned, fh_requests, fh_succeeded,
                   fh_failed>>
    /\ UNCHANGED <<eloVars, modelVars, backtestVars, simVars, preVars, timestampVars, keyVars, compareVars, perOverVars>>

\* the loop is over: return rows
FinishRun ==
    /\ fh_pc = "loop"
    /\ fh_remaining = <<>>
    /\ fh_returned' = fh_rows
    /\ fh_pc' = "returned"
    /\ UNCHANGED <<fh_matches, fh_output, fh_dates_file, fh_rows,
                   fh_existing_ids, fh_dates_done, fh_remaining, fh_requests,
                   fh_succeeded, fh_failed>>
    /\ UNCHANGED <<eloVars, modelVars, backtestVars, simVars, preVars, timestampVars, keyVars, compareVars, perOverVars>>

\* the process is stopped between two steps: what it held in memory is lost,
\* the two files stay as they are
StopRun ==
    /\ fh_pc \in {"loop", "save_rows", "save_dates"}
    /\ fh_pc' = "idle"
    /\ fh_rows' = <<>>
    /\ fh_existing_ids' = {}
    /\ fh_dates_done' = {}
    /\ fh_remaining' = <<>>
    /\ UNCHANGED <<fh_matches, fh_output, fh_dates_file, fh_returned,
                   fh_requests, fh_succeeded, fh_failed>>
    /\ UNCHANGED <<eloVars, modelVars, backtestVars, simVars, preVars, timestampVars, keyVars, compareVars, perOverVars>>

FetchNext ==
    \/ StartRun
    \/ \E d \in FetchDates : CallSucceeds(d)
    \/ CallFails
    \/ SaveRows
    \/ SaveDatesDone
    \/ FinishRun
    \/ StopRun

FetchSpec == FetchInit /\ [][FetchNext]_vars

\* runs are started again and again and are not stopped every time they get
\* to a step, and the call for each date does not fail every time it is made
FetchFairness ==
    /\ SF_vars(StartRun)
    /\ SF_vars(SaveRows)
    /\ SF_vars(SaveDatesDone)
    /\ SF_vars(FinishRun)
    /\ \A d \in FetchDates : SF_vars(CallSucceeds(d))

FetchLiveSpec == FetchSpec /\ FetchFairness

-----------------------------------------------------------------------------
(* Properties of the resumable fetch *)

IsPrefix(s, t) == Len(s) <= Len(t) /\ \A k \in 1..Len(s) : t[k] = s[k]

\* in a state: the stored dates had a successful call, none of them is a date
\* whose latest call failed, and no two stored rows are of one match
FetchFilesSound ==
    /\ fh_dates_file \subseteq fh_succeeded
    /\ fh_dates_file \cap fh_failed = {}
    /\ \A i, j \in 1..Len(fh_output) :
          fh_output[i].match_id = fh_output[j].match_id => i = j

\* in a step: a date joins the stored set only as the date just fetched, a
\* starting run is to visit every date whose latest call failed, and the
\* stored rows stay, in their order
FetchStepSound ==
    /\ fh_dates_file \subseteq fh_dates_file'
    /\ \A d \in fh_dates_file' \ fh_dates_file :
          fh_pc = "save_dates" /\ d = Head(fh_remaining) /\ d \notin fh_failed
    /\ (fh_pc \in {"idle", "returned"} /\ fh_pc' = "loop") =>
          \A d \in fh_failed : \E k \in 1..Len(fh_remaining') : fh_remaining'[k] = d
    /\ IsPrefix(fh_output, fh_output')

\* C28: over any number of runs with failing and succeeding calls, a date is
\* stored as done only after its call succeeded, a date whose call failed
\* stays out and is visited by the next run, stored rows are never removed,
\* and the output never has two rows of one match
C28_ResumeIsSound == []FetchFilesSound /\ [][FetchStepSound]_vars

\* a run that follows a stopped or finished one is about to call again for a
\* date whose call failed, with a row and a date stored by an earlier run
C28_Witness ==
    /\ fh_pc = "loop"
    /\ fh_requests = 0
    /\ fh_remaining # <<>>
    /\ Head(fh_remaining) \in fh_failed
    /\ fh_output # <<>>
    /\ fh_dates_file # {}
    /\ RowIds(fh_output) \cap {m.match_id : m \in {x \in Matches2020Plus(fh_matches) : x.date = Head(fh_remaining)}} # {}

AllDatesDone == AllDates(fh_matches) \subseteq fh_dates_file

\* a run that starts with every date done returns the stored rows, makes no
\* request and leaves the two files as they are
IdleRunWhenDone ==
    (fh_pc \in {"idle", "returned"} /\ AllDatesDone) =>
        /\ fh_pc' = "returned"
        /\ fh_requests' = 0
        /\ fh_returned' = fh_output
        /\ UNCHANGED <<fh_output, fh_dates_file>>

\* C29: if no date's call fails for ever, repeated runs reach a state in
\* which every date from 2020 on is stored as done, and from then on every
\* date stays done and a run makes no request and returns the stored rows
C29_EventuallyAllDone ==
    /\ <>[]AllDatesDone
    /\ [][IdleRunWhenDone]_vars

\* every date is done, rows are stored, and a run has returned them without
\* a request
C29_Witness ==
    /\ AllDatesDone
    /\ Len(SortedSeq(AllDates(fh_matches))) = 2
    /\ fh_output # <<>>
    /\ fh_failed = {}
    /\ fh_pc = "returned"
    /\ fh_requests = 0
    /\ fh_returned = fh_output

-----------------------------------------------------------------------------
(* scripts/fetch_per_over_odds.py: one request per timestamp that the cache *)
(* does not hold, up to a limit of requests per run                         *)

MaxSnapshots == 4

\* the limit of requests of one run, 1500 in the program, scaled to the
\* lists of snapshots of the model
MAX_API_CALLS == 2

\* match_metadata.csv: three contests on one date, so that the first starts
\* at 10 and the other two at 14 and share their timestamps
PerOverMetadata ==
    <<[match_id |-> 1, date |-> 1], [match_id |-> 2, date |-> 1],
      [match_id |-> 3, date |-> 1]>>

\* a row of high_confidence_snapshots_85_plus.csv
SnapshotChoices ==
    {[match_id |-> mid, date |-> 1, innings_number |-> 1, over_number |-> 4] :
        mid \in 1..3}

SnapshotFiles == UNION {[1..n -> SnapshotChoices] : n \in 0..MaxSnapshots}

estimate_over_timestamp(date_str, innings_number, over_number, start_hour) ==
    LET minutes_offset ==
            IF innings_number = 1
            THEN over_number * MINUTES_PER_OVER
            ELSE 20 * MINUTES_PER_OVER + INNINGS_BREAK_MINUTES
                     + over_number * MINUTES_PER_OVER
    IN  <<date_str, start_hour * 60 + minutes_offset>>

\* ts of the loop body
SnapshotTs(snap) ==
    estimate_over_timestamp(snap.date, snap.innings_number, snap.over_number,
        determine_match_slot(snap.match_id, snap.date, PerOverMetadata))

SnapshotKey(s) == <<s.match_id, s.innings_number, s.over_number>>

\* the timestamps of the snapshots of the model, and what a response holds:
\* quotes of the contests of the day, or no event
PerOverStamps == {SnapshotTs(s) : s \in SnapshotChoices}
Responses == {"quoted", "empty"}

\* the cache files: any responses stored for any of the timestamps
CacheFiles == UNION {[T -> Responses] : T \in SUBSET PerOverStamps}

\* the output files: no row, or the row of one snapshot
OutputFiles == {<<>>} \cup {<<s>> : s \in SnapshotChoices}

DoneKeys(rows) == {SnapshotKey(rows[k]) : k \in 1..Len(rows)}

\* every snapshot is fetched, stored or not
TodoAll(snaps, done_keys) == SortByKey(snaps)

\* todo: the snapshots whose key is not in done_keys, sorted
Todo(snaps, done_keys) ==
    SortByKey(SelectSeq(snaps, LAMBDA s : SnapshotKey(s) \notin done_keys))

PerOverInit ==
    /\ EloIdle
    /\ ModelIdle
    /\ BacktestIdle
    /\ SimIdle
    /\ PreMatchIdle
    /\ TimestampIdle
    /\ KeyIdle
    /\ CompareIdle
    /\ FetchIdle
    /\ po_snapshots \in SnapshotFiles
    /\ po_output \in OutputFiles
    /\ po_cache_file \in CacheFiles
    /\ po_pc = "start"
    /\ po_existing_rows = <<>>
    /\ po_todo = <<>>
    /\ po_rows = <<>>
    /\ po_cache = EmptyDict
    /\ po_api_calls = 0
    /\ po_cache_hits = 0
    /\ po_requests = <<>>
    /\ po_processed = <<>>

\* the files are read, todo is built and sorted, the cache is loaded
StartPerOver ==
    /\ po_pc = "start"
    /\ po_existing_rows' = po_output
    /\ po_todo' = Todo(po_snapshots, DoneKeys(po_output))
    /\ po_cache' = po_cache_file
    /\ po_rows' = po_output
    /\ po_api_calls' = 0
    /\ po_cache_hits' = 0
    /\ po_pc' = "loop"
    /\ UNCHANGED <<po_snapshots, po_output, po_cache_file, po_requests, po_processed>>
    /\ UNCHANGED <<eloVars, modelVars, backtestVars, simVars, preVars, timestampVars, keyVars, compareVars, fetchVars>>

\* the rest of the loop body once the response is at hand: a row is appended
\* when the response quotes the contest
RowsAfter(snap, response) ==
    IF response = "quoted" THEN Append(po_rows, snap) ELSE po_rows

\* the loop body for a timestamp the cache holds: fetch_odds_snapshot returns
\* cache[timestamp], False
CacheHit ==
    /\ po_pc = "loop"
    /\ po_todo # <<>>
    /\ po_api_calls < MAX_API_CALLS
    /\ LET snap == Head(po_todo)
           ts == SnapshotTs(snap)
       IN  /\ ts \in DOMAIN po_cache
           /\ po_cache_hits' = po_cache_hits + 1
           /\ po_rows' = RowsAfter(snap, po_cache[ts])
           /\ po_processed' = Append(po_processed, snap)
    /\ po_todo' = Tail(po_todo)
    /\ UNCHANGED <<po_snapshots, po_output, po_cache_file, po_pc,
                   po_existing_rows, po_cache, po_api_calls, po_requests>>
    /\ UNCHANGED <<eloVars, modelVars, backtestVars, simVars, preVars, timestampVars, keyVars, compareVars, fetchVars>>

\* the loop body for a timestamp the cache lacks, the request succeeding:
\* cache[timestamp] = result; api_calls += 1
RequestSucceeds ==
    /\ po_pc = "loop"
    /\ po_todo # <<>>
    /\ po_api_calls < MAX_API_CALLS
    /\ LET snap == Head(po_todo)
           ts == SnapshotTs(snap)
       IN  /\ ts \notin DOMAIN po_cache
           /\ \E response \in Responses :
                 /\ po_cache' = Put(po_cache, ts, response)
                 /\ po_rows' = RowsAfter(snap, response)
           /\ po_requests' = Append(po_requests, [ts |-> ts, ok |-> TRUE])
           /\ po_processed' = Append(po_processed, snap)
    /\ po_api_calls' = po_api_calls + 1
    /\ po_todo' = Tail(po_todo)
    /\ UNCHANGED <<po_snapshots, po_output, po_cache_file, po_pc,
                   po_existing_rows, po_cache_hits>>
    /\ UNCHANGED <<eloVars, modelVars, backtestVars, simVars, preVars, timestampVars, keyVars, compareVars, fetchVars>>

\* the loop body for a timestamp the cache lacks, the request raising:
\* api_calls += 1; continue
RequestFails ==
    /\ po_pc = "loop"
    /\ po_todo # <<>>
    /\ po_api_calls < MAX_API_CALLS
    /\ LET snap == Head(po_todo)
           ts == SnapshotTs(snap)
       IN  /\ ts \notin DOMAIN po_cache
           /\ po_requests' = Append(po_requests, [ts |-> ts, ok |-> FALSE])
           /\ po_processed' = Append(po_processed, snap)
    /\ po_api_calls' = po_api_calls + 1
    /\ po_todo' = Tail(po_todo)
    /\ UNCHANGED <<po_snapshots, po_output, po_cache_file, po_pc,
                   po_existing_rows, po_rows, po_cache, po_cache_hits>>
    /\ UNCHANGED <<eloVars, modelVars, backtestVars, simVars, preVars, timestampVars, keyVars, compareVars, fetchVars>>

\* the loop ends, by the limit (break) or at the end of todo
EndLoop ==
    /\ po_pc = "loop"
    /\ po_api_calls >= MAX_API_CALLS \/ po_todo = <<>>
    /\ po_pc' = "save"
    /\ UNCHANGED <<po_snapshots, po_output, po_cache_file, po_existing_rows,
                   po_todo, po_rows, po_cache, po_api_calls, po_cache_hits,
                   po_requests, po_processed>>
    /\ UNCHANGED <<eloVars, modelVars, backtestVars, simVars, preVars, timestampVars, keyVars, compareVars, fetchVars>>

\* save_rows(rows); save_cache(cache)
SavePerOver ==
    /\ po_pc = "save"
    /\ po_output' = po_rows
    /\ po_cache_file' = po_cache
    /\ po_pc' = "done"
    /\ UNCHANGED <<po_snapshots, po_existing_rows, po_todo, po_rows, po_cache,
                   po_api_calls, po_cache_hits, po_requests, po_processed>>
    /\ UNCHANGED <<eloVars, modelVars, backtestVars, simVars, preVars, timestampVars, keyVars, compareVars, fetchVars>>

PerOverNext ==
    \/ StartPerOver
    \/ CacheHit
    \/ RequestSucceeds
    \/ RequestFails
    \/ EndLoop
    \/ SavePerOver

PerOverSpec == PerOverInit /\ [][PerOverNext]_vars

-----------------------------------------------------------------------------
(* Properties of one run of the per-over fetch *)

\* in a state: the requests are within the limit and are what api_calls
\* counts, failed ones included, while cache hits are counted apart, and no
\* snapshot whose key the output file held was processed
PerOverStateSound ==
    /\ Len(po_requests) <= MAX_API_CALLS
    /\ po_api_calls = Len(po_requests)
    /\ po_api_calls + po_cache_hits = Len(po_processed)
    /\ \A k \in 1..Len(po_processed) :
          SnapshotKey(po_processed[k]) \notin DoneKeys(po_existing_rows)

\* in a step: a request is for a timestamp the cache lacks, and a failed
\* request leaves the cache as it is
PerOverStepSound ==
    Len(po_requests') > Len(po_requests) =>
        LET request == po_requests'[Len(po_requests')]
        IN  /\ request.ts \notin DOMAIN po_cache
            /\ ~request.ok => po_cache' = po_cache

\* C30: in one run the requests never exceed MAX_API_CALLS, failed requests
\* counting and cache hits not, a cached timestamp causes no request, a
\* failed request adds nothing to the cache, and a snapshot whose key is in
\* the output file is not processed
C30_RequestsCappedAndCached == []PerOverStateSound /\ [][PerOverStepSound]_vars

\* a finished run that left out a stored snapshot, took one response from the
\* cache and made requests up to the limit, one of which failed
C30_Witness ==
    /\ po_pc = "done"
    /\ Len(po_requests) = MAX_API_CALLS
    /\ \E k \in 1..Len(po_requests) : ~po_requests[k].ok
    /\ po_cache_hits >= 1
    /\ \E k \in 1..Len(po_snapshots) :
          SnapshotKey(po_snapshots[k]) \in DoneKeys(po_existing_rows)

====
